---- MODULE Spec2Model ----
(***************************************************************************)
(* A model of neovim-ide-companion: the autocmd event bridge               *)
(* (src/src/neovim.ts), the diff review engine (src/src/neovim.ts diff,    *)
(* src/src/diff-manager.ts DiffManager), the MCP session router            *)
(* (src/src/gemini.ts) and the open-file tracker                           *)
(* (src/src/open-files-manager.ts).                                        *)
(*                                                                         *)
(* The process is a single Node.js event loop.  One action of the model is *)
(* one run-to-completion piece of a handler: the code between two awaits   *)
(* that let other callbacks in.  A microtask queued by a handler (the      *)
(* .then of an already settled promise) runs before the event loop takes   *)
(* the next message, so it is part of the action that queued it.           *)
(***************************************************************************)
EXTENDS Integers, Sequences, FiniteSets, TLC

VARIABLES
  \* ---- event bridge (neovim.ts) ----
  autocmdCallbacks,   \* Map<callbackId, callback>: a function on the registered ids
  callbackIdCounter,  \* let callbackIdCounter
  subscriptions,      \* number of nvim.on("notification") listeners installed by registerAutocmd
  hooks,              \* editor side: the autocmds created by nvim_create_autocmd
  thens,              \* per callbackId: its callback promises not yet settled, each with a pending .then(unregister)
  invoked,            \* per callbackId: how many times its callback was called
  fired,              \* per callbackId: how many times its editor-side hook fired
  firedGone,          \* per callbackId: how many times its hook fired with the channel gone
  escaped,            \* the failures of callbacks that nothing in the bridge has caught:
                      \* exceptions that left its listener, rejections left unhandled
  \* ---- diff review engine (neovim.ts diff, diff-manager.ts) ----
  connected,          \* the RPC channel to the editor is usable
  alive,              \* the process has not exited
  diffCounter,        \* let diffCounter
  rev,                \* per target path: the latest showDiff call on it and its diff() closure
  activeDiffs,        \* DiffManager.activeDiffs: target path -> {oldFilePath, newFilePath}
  keyListeners,       \* the reviews (by accept id) whose onNotification listener is still installed
  disk,               \* file system: path -> content or NoFile
  bufs,               \* editor buffers: path -> text or NoBuf
  shown,              \* editor: the buffer of this path is visible in some window
  keymaps,            \* editor: buffer-local a/r keymaps: path -> review that set them, 0 if none
  last,               \* the call this step completed, where the model reports it: operation, path, error
  \* ---- MCP session router (gemini.ts) ----
  transports,         \* this.transports: session id -> transport
  conns,              \* the transports created so far, in order of creation
  sessionsWithInitialNotification,  \* const sessionsWithInitialNotification
  broadcasts,         \* number of onDidChange broadcasts so far
  reply,              \* the HTTP request this step answered, if it answered one, and the answer
  pushFailed,         \* the transport whose send failed in the broadcast of this step, or 0
  \* ---- open-file tracker (open-files-manager.ts) ----
  files,              \* this.files: the tracked files, in the order of the array
  tracking,           \* initialize() has run
  debounceTimer,      \* this.debounceTimer: "null", "armed" or "fired"
  now,                \* the time, in ms
  timers,             \* the deadlines of the timeouts that are set
  lastCall,           \* when fireWithDebounce was last called, -1: never
  burstCalls,         \* fireWithDebounce calls of the current burst (each less than
                      \* DEBOUNCE_MS after the one before), counted up to MaxBurst
  callEmits,          \* onDidChange emissions since the current burst began
  nSeen,              \* how many files the tracker has heard of
  inOrder,            \* the list was built only by adding new files, one after the other
  reflagged,          \* a file was flagged active while another file was flagged
  inflight,           \* the runs of the autocmd callback that wait at an await
  lastEvent,          \* per file, the last event the tracker received for it
  nEvents,            \* how many events the tracker received while runs could overlap
  \* ---- tools of the Claude server (claude.ts) and the editor's file buffers ----
  nbufs,              \* per file, its buffer in the editor: "none", "clean" (as loaded),
                      \* "dirty" (modified is set) or "saved" (written after an edit)
  current,            \* the file of the current buffer, or "scratch"
  answer,             \* the tool call this step answered, if any, and the answer
  \* ---- endpoints of the Claude server (claude.ts) ----
  jsonRPCRequestHandler,  \* this.jsonRPCRequestHandler: method -> what its handler does
  sseTransports,      \* this.transports: session id -> transport
  sseConns,           \* the SSE transports created so far, in order of creation
  response            \* the POST /claude this step answered, if any, and the answer

bridgeVars == <<autocmdCallbacks, callbackIdCounter, subscriptions, hooks, thens,
                invoked, fired, firedGone, escaped>>
channel == <<connected, alive>>
diffVars == <<channel, diffCounter, rev, activeDiffs, keyListeners, disk, bufs,
              shown, keymaps>>
routerVars == <<transports, conns, sessionsWithInitialNotification, broadcasts, reply,
                pushFailed>>
debounceVars == <<debounceTimer, now, timers, lastCall, burstCalls, callEmits>>
asyncVars == <<inflight, lastEvent, nEvents>>
trackerVars == <<files, tracking, debounceVars, nSeen, inOrder, reflagged, asyncVars>>
httpVars == <<jsonRPCRequestHandler, sseTransports, sseConns, response>>
claudeVars == <<nbufs, current, answer, httpVars>>
otherVars == <<routerVars, trackerVars, claudeVars>>
vars == <<bridgeVars, diffVars, last, routerVars, trackerVars, claudeVars>>

----------------------------------------------------------------------------
\* Bounds of the model.
MaxCalls == 2       \* showDiff calls that open a review in one behaviour
MaxHandles == 2     \* registerAutocmd calls in one behaviour of the bridge
MaxFire == 2        \* firings of one editor-side hook in one behaviour of the bridge
MaxSessions == 2    \* initialize requests in one behaviour of the router
MaxPush == 2        \* broadcasts in one behaviour of the router
MaxListed == 1      \* listed file buffers the editor has when the tracker starts
MaxExtra == 1       \* files the editor opens beyond MAX_FILES
MaxOld == 1         \* files that get events again after they entered the list
TickMs == 25        \* the grain of time, in ms
MaxTicks == 4       \* updates are handled during this many ticks
MaxBurst == 3       \* the calls of a burst are counted up to this number
MaxPosts == 2       \* messages handed to one SSE transport in one behaviour
MaxEvents == 3      \* events whose handlers may overlap in one behaviour of the tracker
MaxDepth == 2       \* segments of a target path
MaxGets == 2        \* GET requests of one session that are handled at the same time

\* open-files-manager.ts:19  export const MAX_FILES = 10
MAX_FILES == 10

\* open-files-manager.ts:74  setTimeout(..., 50)
DEBOUNCE_MS == 50

\* An absolute path is the sequence of its segments: <<"a">> is /a and
\* <<".", "a">> is /./a.  The targets of the reviews the model runs are two files
\* of the root directory.
Paths == {<<"a">>, <<"b">>}

\* path.dirname and path.basename of node:path: all segments but the last, and
\* the last segment
dirname(p) == SubSeq(p, 1, Len(p) - 1)
basename(p) == p[Len(p)]

\* path.normalize: a "." segment is dropped, a ".." segment takes the segment
\* before it away (at the root there is none to take)
RECURSIVE normalize(_)
normalize(p) ==
  IF p = <<>> THEN <<>>
  ELSE LET front == normalize(SubSeq(p, 1, Len(p) - 1))
           seg == p[Len(p)]
       IN  IF seg = "." THEN front
           ELSE IF seg = ".." THEN SubSeq(front, 1, Len(front) - 1)
           ELSE Append(front, seg)

\* path.join(dir, name): the segments of both, normalized
join(dir, name) == normalize(Append(dir, name))

\* diff-manager.ts:22  path.join(dirname(filePath), `✻ [New] ${basename(filePath)}`)
UndecoratedPath(p) == join(dirname(p), basename(p))
NewFilePath(p) == join(dirname(p), "[New] " \o basename(p))

\* The target paths a tool call can name: every path of at most MaxDepth segments
\* over these segment names.
Segments == {".", "..", "a", "b"}
TargetPaths == UNION {[1..n -> Segments] : n \in 1..MaxDepth}

AllFiles == Paths \cup {NewFilePath(p) : p \in Paths}
ScratchFiles == {NewFilePath(p) : p \in Paths}

NoFile == "ENOENT"
NoBuf == "nobuf"

Handles == 1..(2 * MaxCalls + MaxHandles)

AutocmdMethod == "nvim_AUTOCMD_CALLBACK"  \* neovim.ts:122
KeymapMethod == "diff-keymap"             \* neovim.ts:265

----------------------------------------------------------------------------
\* Event bridge

\* neovim.ts:167-175  unregisterAutocmd: autocmdCallbacks.delete(id) for each id
UnregisterNone(table, ids) == table
UnregisterAll(table, ids) == [h \in {} |-> table[h]]
unregisterAutocmd(table, ids) ==
  [h \in (DOMAIN table) \ ids |-> table[h]]

\* neovim.ts:140-141: autocmdCallbacks.set(callbackId, callback)
TableAfterRegister(table, id, cb) ==
  [h \in (DOMAIN table) \cup {id} |-> IF h = id THEN cb ELSE table[h]]

\* neovim.ts:123-138: the listener is installed by the registration that finds the
\* counter at 0; SubscribeAlways installs one at every registration.
SubscribeAlways(counter, subs) == subs + 1
SubscriptionsAfterRegister(counter, subs) ==
  IF counter = 0 THEN subs + 1 ELSE subs

\* The notifications an editor event on `pattern` sends: one per hook on it
\* (neovim.ts:148-150 rpcnotify(channelId, method, callbackId, ...)), in the order
\* the hooks were created.  A hook carries the callback it was created for; owner
\* and sig say which review, if any, the notification is a completion signal of.
RECURSIVE HookNotes(_, _, _)
HookNotes(hs, event, pattern) ==
  IF hs = {} THEN <<>>
  ELSE LET m == CHOOSE x \in hs : \A y \in hs : x.id <= y.id
       IN  (IF m.event = event /\ m.pattern = pattern
              THEN <<[method |-> AutocmdMethod, id |-> m.id, owner |-> m.cb.call,
                      sig |-> "leave"]>>
              ELSE <<>>)
           \o HookNotes(hs \ {m}, event, pattern)

----------------------------------------------------------------------------
\* Diff review engine

InFlight(c) == c.pc \in {"open", "cleanup", "cleaned", "settled"}

\* neovim.ts:216-251  doResolve: the first call sets the guard and starts the
\* cleanup of both panes; every later call returns at once.
doResolve(c, result) ==
  IF c.resolved THEN c
  ELSE [c EXCEPT !.resolved = TRUE, !.outcome = result, !.pc = "cleanup"]

\* neovim.ts:256-259  leaveCallback: doResolve("accepted"); return true
LeaveRejects == "rejected"
leaveCallback == "accepted"

\* neovim.ts:282-293  what the key listener of review c does with a diff-keymap
\* notification that carries `id`
KeyResult(c, id) ==
  IF id = c.acceptId THEN "accepted"
  ELSE IF id = c.rejectId THEN "rejected"
  ELSE "none"

\* neovim.ts:30-37 with the callback of 282-293: a key listener is taken off as
\* soon as its callback returns true, which it does for every diff-keymap
\* notification, whatever id the notification carries.
KeyListenersAfter(listeners, m) ==
  IF m.method = KeymapMethod THEN {} ELSE listeners

\* The signal sig of review c has reached the process.  What is recorded is the
\* history up to the resolution of the review.
Signaled(c, sig) ==
  IF c.resolved THEN c
  ELSE [c EXCEPT !.first = IF @ = "none" THEN sig ELSE @,
                 !.rejectSeen = @ \/ sig = "reject",
                 !.atLeave = IF @ = "none" /\ sig = "leave"
                               THEN (IF c.rejectSeen THEN "reject" ELSE "noReject")
                               ELSE @]

\* Dispatch works on the part of the state a notification can change.
BridgeState ==
  [rev |-> rev, table |-> autocmdCallbacks, listeners |-> keyListeners,
   thens |-> thens, invoked |-> invoked, escaped |-> escaped]

\* The process takes one notification off the channel and emits it to every
\* "notification" listener: the bridge's listener (neovim.ts:124-137) and the key
\* listeners of the reviews (neovim.ts:31-36, 282-293).
\*   bridge: cb = autocmdCallbacks.get(callbackId); if (cb) Promise.resolve(cb(...))
\*           .then(unregister => unregister && unregisterAutocmd(callbackId))
\*   A callback that returns a value has its .then run as a microtask, before the
\*   next notification; an async callback leaves its .then pending in `thens`.
\*   The listener has no try and the chain no catch: an exception a callback throws
\*   (cb.fails of a callback that is not async) leaves the listener before
\*   Promise.resolve is reached.
\* A review is named by its accept id.  The closure of an earlier review of the
\* same path is resolved already (the path is reviewed again only after that), so
\* a callback of such a closure returns at the guard of doResolve and changes
\* nothing.  Signaled records the arrival of the signal on the review it belongs to.
Dispatch(st, m) ==
  LET hit == /\ m.method = AutocmdMethod
             /\ subscriptions > 0
             /\ m.id \in DOMAIN st.table
      cb == st.table[m.id]
  IN
  [rev |->
     [p \in DOMAIN st.rev |->
        LET c0 == st.rev[p]
            c1 == IF c0.acceptId = m.owner THEN Signaled(c0, m.sig) ELSE c0
        IN  IF hit /\ cb.kind = "leave" /\ cb.call = c0.acceptId
              THEN doResolve(c1, leaveCallback)
            ELSE IF /\ m.method = KeymapMethod
                    /\ c0.acceptId \in st.listeners
                    /\ KeyResult(c0, m.id) # "none"
              THEN doResolve(c1, KeyResult(c0, m.id))
            ELSE c1],
   table |->
     IF hit /\ cb.kind \in {"leave", "sync"} /\ cb.ret /\ ~cb.fails
       THEN unregisterAutocmd(st.table, {m.id})
       ELSE st.table,
   listeners |-> KeyListenersAfter(st.listeners, m),
   thens |->
     IF hit /\ cb.kind = "async"
       THEN [st.thens EXCEPT ![m.id] = [pending |-> @.pending + subscriptions,
                                        ret |-> cb.ret, fails |-> cb.fails]]
       ELSE st.thens,
   escaped |->
     IF hit /\ cb.kind \in {"leave", "sync"} /\ cb.fails
       THEN st.escaped \cup {[id |-> m.id, how |-> "thrown"]}
       ELSE st.escaped,
   invoked |->
     IF hit THEN [st.invoked EXCEPT ![m.id] = @ + subscriptions] ELSE st.invoked]

RECURSIVE DispatchAll(_, _)
DispatchAll(st, notes) ==
  IF notes = <<>> THEN st
  ELSE DispatchAll(Dispatch(st, Head(notes)), Tail(notes))

\* The step completed no call that `last` reports.
NoOp == [op |-> "none", path |-> <<>>, error |-> "none"]

\* The notifications `notes` arrive, in this order, and each is dispatched.
Deliver(st, notes) ==
  LET r == DispatchAll(st, notes)
  IN  /\ rev' = r.rev
      /\ autocmdCallbacks' = r.table
      /\ keyListeners' = r.listeners
      /\ thens' = r.thens
      /\ invoked' = r.invoked
      /\ escaped' = r.escaped

NoRet == [type |-> "none", content |-> "none"]

\* The latest showDiff call on a path (diff-manager.ts:21-71) with the closure of
\* its diff() (neovim.ts:208-315): resolved is `let resolved`, outcome the value
\* doResolve took, acceptId / rejectId the ids of lines 253-254.  The other fields
\* record what happened to the call:
\*   first       the first completion signal the process received for it
\*   rejectSeen  a reject key press of it reached the process before it was resolved
\*   atLeave     a window close of it reached the process while it was in flight:
\*               had a reject key press arrived before ("reject") or not ("noReject")
\*   edited      a human edited its proposed pane before it was resolved
\*   onDisk      the content of its scratch file when its promise was settled
\*   nResolve    how many times its promise was settled
\*   nUnlink     how many times fs.unlink was called on its scratch file
\*   ret         what showDiff returned
\*   sid         extra.sessionId of the openDiff tool call (gemini.ts:61), 0: none
\*   oldDelete   the bdelete! of its old pane (neovim.ts:230): "none" not issued,
\*               "sent" issued and not yet carried out by the editor, "done"
\*   byClose     a closeDiff call closed its panes while it was open and no
\*               completion signal of it had reached the process
NoReview ==
  [pc |-> "idle", content |-> "none", resolved |-> FALSE, outcome |-> "pending",
   acceptId |-> 0, rejectId |-> 0,
   first |-> "none", rejectSeen |-> FALSE, atLeave |-> "none", edited |-> FALSE,
   onDisk |-> "none", nResolve |-> 0, nUnlink |-> 0, ret |-> NoRet, sid |-> 0,
   oldDelete |-> "none", byClose |-> FALSE]

NewReview(c, aid, rid) ==
  [NoReview EXCEPT !.pc = "open", !.content = c, !.acceptId = aid, !.rejectId = rid]

LeaveEntry(n) == [kind |-> "leave", call |-> n, ret |-> TRUE, fails |-> FALSE]

\* neovim.ts:113-166  registerAutocmd(event, {buffer}, callback) by a caller other
\* than diff(): the callback returns `ret`, at once (kind "sync") or as a promise
\* that settles later (kind "async", as the callback of tempEdit, 322-327).  The
\* hook is on an event of a buffer of the caller's own.  fails: the callback does
\* not return: it throws (kind "sync"), or its promise is rejected (kind "async").
RegisterAutocmd(kind, ret, fails) ==
  LET id == callbackIdCounter + 1
      cb == [kind |-> kind, call |-> 0, ret |-> ret, fails |-> fails]
  IN
  /\ callbackIdCounter < MaxHandles
  /\ subscriptions' = SubscriptionsAfterRegister(callbackIdCounter, subscriptions)
  /\ callbackIdCounter' = id
  /\ autocmdCallbacks' = TableAfterRegister(autocmdCallbacks, id, cb)
  /\ hooks' = hooks \cup {[id |-> id, event |-> "BufWinLeave", pattern |-> <<"buf", id>>,
                            cb |-> cb]}
  /\ UNCHANGED <<thens, invoked, fired, firedGone, escaped, diffVars, last, otherVars>>

\* The event of a hook occurs in the editor: the hook sends its notification
\* (neovim.ts:146-152) and the process dispatches it (124-137).
FireHook(h) ==
  /\ h \in hooks
  /\ connected
  /\ fired[h.id] < MaxFire
  /\ fired' = [fired EXCEPT ![h.id] = @ + 1]
  /\ Deliver(BridgeState, HookNotes({h}, h.event, h.pattern))
  /\ UNCHANGED <<callbackIdCounter, subscriptions, hooks, firedGone, channel, diffCounter,
                 activeDiffs, disk, bufs, shown, keymaps, last, otherVars>>

\* neovim.ts:124-137: a notification of the bridge's method arrives with a handle
\* that no registration has been given so far; fired counts the notifications that
\* carried the handle.
StrayNotification(id) ==
  /\ connected
  /\ id > callbackIdCounter
  /\ fired[id] < MaxFire
  /\ fired' = [fired EXCEPT ![id] = @ + 1]
  /\ Deliver(BridgeState,
             <<[method |-> AutocmdMethod, id |-> id, owner |-> 0, sig |-> "none"]>>)
  /\ UNCHANGED <<callbackIdCounter, subscriptions, hooks, firedGone, channel, diffCounter,
                 activeDiffs, disk, bufs, shown, keymaps, last, otherVars>>

\* neovim.ts:151  vim.api.nvim_del_autocmd(id); AutocmdKept leaves the hook.
AutocmdKept(hs, h) == hs
nvim_del_autocmd(hs, h) == hs \ {h}

\* neovim.ts:148-153: the event of a hook occurs when the channel is gone:
\* pcall(vim.rpcnotify, ...) fails, nothing is sent, and the hook deletes itself.
FireHookGone(h) ==
  /\ h \in hooks
  /\ ~connected
  /\ firedGone[h.id] < MaxFire
  /\ firedGone' = [firedGone EXCEPT ![h.id] = @ + 1]
  /\ hooks' = nvim_del_autocmd(hooks, h)
  /\ UNCHANGED <<autocmdCallbacks, callbackIdCounter, subscriptions, thens, invoked,
                 fired, escaped, diffVars, last, otherVars>>

\* neovim.ts:130-134: the promise of an async callback settles; a truthy value
\* unregisters the handle.  A rejection skips the .then callback and, the chain
\* having no catch, stays unhandled.
ThenSettle(h) ==
  /\ thens[h].pending > 0
  /\ thens' = [thens EXCEPT ![h].pending = @ - 1]
  /\ autocmdCallbacks' = IF thens[h].ret /\ ~thens[h].fails
                           THEN unregisterAutocmd(autocmdCallbacks, {h})
                           ELSE autocmdCallbacks
  /\ escaped' = IF thens[h].fails
                  THEN escaped \cup {[id |-> h, how |-> "rejected"]}
                  ELSE escaped
  /\ UNCHANGED <<callbackIdCounter, subscriptions, hooks, invoked, fired, firedGone,
                 diffVars, last,
                 otherVars>>

\* neovim.ts:167-175: a caller unregisters a handle itself.
UnregisterAutocmd(h) ==
  /\ h \in DOMAIN autocmdCallbacks
  /\ autocmdCallbacks' = unregisterAutocmd(autocmdCallbacks, {h})
  /\ UNCHANGED <<callbackIdCounter, subscriptions, hooks, thens, invoked, fired,
                 firedGone, escaped,
                 diffVars, last, otherVars>>

\* diff-manager.ts:25  activeDiffs.set(filePath, {oldFilePath, newFilePath})
ActiveDiffsSet(m, p) ==
  [q \in (DOMAIN m) \cup {p} |->
     IF q = p THEN [oldFilePath |-> p, newFilePath |-> NewFilePath(p)] ELSE m[q]]

\* diff-manager.ts:23-25: the entry is set after the awaited write, so only when
\* the write has not rejected.
EntryBeforeWrite(m, p, writeOk) == ActiveDiffsSet(m, p)
EntryAfterWrite(m, p, writeOk) == IF writeOk THEN ActiveDiffsSet(m, p) ELSE m

\* diff-manager.ts:65  activeDiffs.delete(filePath)
ActiveDiffsDelete(m, p) == [q \in (DOMAIN m) \ {p} |-> m[q]]

\* diff-manager.ts:21-27 and neovim.ts:208-311: showDiff up to the point where
\* diff() returns its pending promise.
\*   23      fs.writeFile(newFilePath, newContent)      (may reject)
\*   25      activeDiffs.set(filePath, ...)
\*   209-210 tabnew / vert diffsplit                     (reject when the channel is down:
\*           the call is made before the process has handled the loss)
\*   261-262 the two BufWinLeave registrations
\*   253-254, 282-293 the key ids and the key listener
\*   300-301 the buffer-local keymaps on both panes
\* Callers serialize reviews of one path (two reviews of one target at once are
\* outside the design), so p has no review in flight.  The caller is the openDiff
\* tool handler (gemini.ts:52-59), whose request came through a registered session
\* when the server has sessions.
ShowDiff(p, c) ==
  LET newp == NewFilePath(p)
      aid == diffCounter + 1
      callers == IF DOMAIN transports = {} THEN {0} ELSE DOMAIN transports
  IN
  /\ UNCHANGED otherVars
  /\ alive
  /\ ~InFlight(rev[p])
  /\ \E writeOk \in BOOLEAN :
       IF ~writeOk THEN
         /\ last' = [op |-> "showDiff", path |-> p, error |-> "write"]
         /\ activeDiffs' = EntryAfterWrite(activeDiffs, p, writeOk)
         /\ UNCHANGED <<bridgeVars, channel, diffCounter, rev, keyListeners, disk,
                        bufs, shown, keymaps>>
       ELSE IF ~connected THEN
         /\ last' = [op |-> "showDiff", path |-> p, error |-> "connectivity"]
         /\ disk' = [disk EXCEPT ![newp] = c]
         /\ activeDiffs' = EntryAfterWrite(activeDiffs, p, writeOk)
         /\ UNCHANGED <<bridgeVars, channel, diffCounter, rev, keyListeners,
                        bufs, shown, keymaps>>
       ELSE
         /\ diffCounter < 2 * MaxCalls
         /\ last' = NoOp
         /\ disk' = [disk EXCEPT ![newp] = c]
         /\ activeDiffs' = EntryAfterWrite(activeDiffs, p, writeOk)
         /\ \E sid \in callers :
              rev' = [rev EXCEPT ![p] = [NewReview(c, aid, aid + 1) EXCEPT !.sid = sid]]
         /\ diffCounter' = diffCounter + 2
         /\ keyListeners' = keyListeners \cup {aid}
         /\ autocmdCallbacks' =
              TableAfterRegister(
                TableAfterRegister(autocmdCallbacks, callbackIdCounter + 1,
                                   LeaveEntry(aid)),
                callbackIdCounter + 2, LeaveEntry(aid))
         /\ subscriptions' = SubscriptionsAfterRegister(callbackIdCounter, subscriptions)
         /\ callbackIdCounter' = callbackIdCounter + 2
         /\ hooks' = hooks \cup
              {[id |-> callbackIdCounter + 1, event |-> "BufWinLeave", pattern |-> p,
                cb |-> LeaveEntry(aid)],
               [id |-> callbackIdCounter + 2, event |-> "BufWinLeave", pattern |-> newp,
                cb |-> LeaveEntry(aid)]}
         /\ bufs' = [bufs EXCEPT ![newp] = c,
                                 ![p] = IF bufs[p] = NoBuf THEN disk[p] ELSE bufs[p]]
         /\ shown' = [shown EXCEPT ![newp] = TRUE, ![p] = TRUE]
         /\ keymaps' = [keymaps EXCEPT ![newp] = aid, ![p] = aid]
         /\ UNCHANGED <<thens, invoked, fired, firedGone, escaped, channel>>

\* The user presses a (k = "a") or r in a pane that carries the keymaps of a review
\* (neovim.ts:271-278): the editor sends diff-keymap with that review's id, and the
\* process dispatches it.
KeyPress(f, k) ==
  /\ connected
  /\ UNCHANGED otherVars
  /\ last' = NoOp
  /\ bufs[f] # NoBuf /\ shown[f] /\ keymaps[f] # 0
  /\ Deliver(BridgeState,
       <<[method |-> KeymapMethod,
          id |-> IF k = "a" THEN keymaps[f] ELSE keymaps[f] + 1,
          owner |-> keymaps[f],
          sig |-> IF k = "a" THEN "accept" ELSE "reject"]>>)
  /\ UNCHANGED <<callbackIdCounter, subscriptions, hooks, fired, firedGone, channel, diffCounter,
                 activeDiffs, disk, bufs, shown, keymaps>>

\* The last window on the buffer of f goes away: BufWinLeave fires every hook on f.
CloseWindow(f) ==
  /\ connected
  /\ UNCHANGED otherVars
  /\ last' = NoOp
  /\ shown[f]
  /\ shown' = [shown EXCEPT ![f] = FALSE]
  /\ Deliver(BridgeState, HookNotes(hooks, "BufWinLeave", f))
  /\ UNCHANGED <<callbackIdCounter, subscriptions, hooks, fired, firedGone, channel, diffCounter,
                 activeDiffs, disk, bufs, keymaps>>

\* The user shows a target file that is under no review in a window.
OpenWindow(f) ==
  /\ connected
  /\ UNCHANGED otherVars
  /\ last' = NoOp
  /\ f \in Paths /\ ~InFlight(rev[f])
  /\ ~shown[f]
  /\ disk[f] # NoFile
  /\ shown' = [shown EXCEPT ![f] = TRUE]
  /\ bufs' = [bufs EXCEPT ![f] = IF bufs[f] = NoBuf THEN disk[f] ELSE bufs[f]]
  /\ UNCHANGED <<bridgeVars, channel, diffCounter, rev, activeDiffs, keyListeners,
                 disk, keymaps>>

\* The user edits the text of the proposed pane, without writing it.
HumanEdit(f) ==
  /\ connected
  /\ UNCHANGED otherVars
  /\ last' = NoOp
  /\ f \in ScratchFiles
  /\ shown[f] /\ bufs[f] \notin {NoBuf, "edit"}
  /\ bufs' = [bufs EXCEPT ![f] = "edit"]
  /\ rev' = [p \in Paths |->
               IF f = NewFilePath(p) /\ rev[p].pc = "open"
                 THEN [rev[p] EXCEPT !.edited = TRUE] ELSE rev[p]]
  /\ UNCHANGED <<bridgeVars, channel, diffCounter, activeDiffs, keyListeners,
                 disk, shown, keymaps>>

\* The user writes the proposed pane with :w: the buffer goes to disk and
\* BufWritePost fires the hooks on it.  diff() registers BufWinLeave hooks
\* (neovim.ts:261-262) and the two keymaps (271-278) and nothing on BufWritePost.
WriteFile(f) ==
  /\ connected
  /\ UNCHANGED otherVars
  /\ f \in ScratchFiles
  /\ shown[f] /\ bufs[f] # NoBuf
  /\ last' = [op |-> "write", path |-> f, error |-> "none"]
  /\ disk' = [disk EXCEPT ![f] = bufs[f]]
  /\ Deliver(BridgeState, HookNotes(hooks, "BufWritePost", f))
  /\ UNCHANGED <<callbackIdCounter, subscriptions, hooks, fired, firedGone, channel, diffCounter,
                 activeDiffs, bufs, shown, keymaps>>

\* The channel to the editor goes down.
Disconnect ==
  /\ connected
  /\ UNCHANGED otherVars
  /\ last' = NoOp
  /\ connected' = FALSE
  /\ UNCHANGED <<bridgeVars, alive, diffCounter, rev, activeDiffs, keyListeners, disk, bufs,
                 shown, keymaps>>

\* neovim.ts:23-26  nvim.on("disconnect"): the process logs the loss of the editor
\* and exits.  Handlers that were queued before the event run before it.
ProcessExit ==
  /\ alive /\ ~connected
  /\ alive' = FALSE
  /\ last' = NoOp
  /\ UNCHANGED <<bridgeVars, connected, diffCounter, rev, activeDiffs, keyListeners, disk,
                 bufs, shown, keymaps, otherVars>>

\* neovim.ts:242  nvim.command("w"): the text of the proposed buffer goes to disk
CleanupNewWrite(d, text) == text

\* neovim.ts:222-249: the cleanup of both panes of a resolved review (Promise.all
\* of two chains on two different buffers).
\*   223-237 old pane: find its buffer and issue bdelete! on it.  The command is
\*           neither awaited nor returned (230), so the chain is settled as soon
\*           as the command is written to the channel: the editor has carried it
\*           out by the time the other chain settles (oldLate = FALSE), or it
\*           has not (oldLate = TRUE).
\*   238-248 proposed pane: find its buffer, show it in the current window, write
\*           it (w) and bdelete! it, each awaited
\* Deleting a visible buffer fires BufWinLeave on it; the notifications reach the
\* process while the review is already resolved.  A failure of either chain
\* (buffer not found, channel down) is caught and logged.
Cleanup(p, oldLate) ==
  /\ UNCHANGED otherVars
  /\ alive
  /\ last' = NoOp
  /\ rev[p].pc = "cleanup"
  /\ LET old == p
         new == NewFilePath(p)
         foundOld == connected /\ bufs[old] # NoBuf
         foundNew == connected /\ bufs[new] # NoBuf
         goneOld == foundOld /\ ~oldLate
         st == [BridgeState EXCEPT
                  !.rev[p].pc = "cleaned",
                  !.rev[p].oldDelete = IF ~foundOld THEN "none"
                                       ELSE IF oldLate THEN "sent" ELSE "done"]
     IN
     /\ oldLate => foundOld
     /\ disk' = IF foundNew
                  THEN [disk EXCEPT ![new] = CleanupNewWrite(disk[new], bufs[new])]
                  ELSE disk
     /\ bufs' = [f \in AllFiles |->
                   IF (f = old /\ goneOld) \/ (f = new /\ foundNew) THEN NoBuf
                   ELSE bufs[f]]
     /\ keymaps' = [f \in AllFiles |->
                      IF (f = old /\ goneOld) \/ (f = new /\ foundNew) THEN 0
                      ELSE keymaps[f]]
     /\ shown' = [f \in AllFiles |->
                    IF (f = old /\ goneOld) \/ (f = new /\ foundNew) THEN FALSE
                    ELSE shown[f]]
     /\ Deliver(st,
          (IF goneOld /\ shown[old] THEN HookNotes(hooks, "BufWinLeave", old)
           ELSE <<>>)
          \o (IF foundNew THEN HookNotes(hooks, "BufWinLeave", new) ELSE <<>>))
  /\ UNCHANGED <<callbackIdCounter, subscriptions, hooks, fired, firedGone, channel, diffCounter,
                 activeDiffs>>

\* neovim.ts:230: the editor carries out the bdelete! of the old pane that the
\* cleanup issued without waiting for it.  The buffer goes away, with its keymaps,
\* and BufWinLeave fires on it if it was visible.
OldDeleteLands(p) ==
  /\ UNCHANGED otherVars
  /\ connected
  /\ last' = NoOp
  /\ rev[p].oldDelete = "sent"
  /\ bufs' = [bufs EXCEPT ![p] = NoBuf]
  /\ keymaps' = [keymaps EXCEPT ![p] = 0]
  /\ shown' = [shown EXCEPT ![p] = FALSE]
  /\ Deliver([BridgeState EXCEPT !.rev[p].oldDelete = "done"],
             IF shown[p] THEN HookNotes(hooks, "BufWinLeave", p) ELSE <<>>)
  /\ UNCHANGED <<callbackIdCounter, subscriptions, hooks, fired, firedGone, channel, diffCounter,
                 activeDiffs, disk>>

\* neovim.ts:222, 250: both cleanups are over (Promise.all) and resolve(result)
\* settles the promise of diff().
ResolveDiff(p) ==
  /\ UNCHANGED otherVars
  /\ alive
  /\ last' = NoOp
  /\ rev[p].pc = "cleaned"
  /\ rev' = [rev EXCEPT ![p].pc = "settled", ![p].nResolve = @ + 1,
                        ![p].onDisk = disk[NewFilePath(p)]]
  /\ UNCHANGED <<bridgeVars, channel, diffCounter, activeDiffs, keyListeners, disk,
                 bufs, shown, keymaps>>

\* diff-manager.ts:28, 66-69: the content showDiff returns is what readFile gave.
ReturnProposed(c, tempContent) == [type |-> c.outcome, content |-> c.content]
ShowDiffResult(c, tempContent) == [type |-> c.outcome, content |-> tempContent]

\* The transports of this.transports in the order of Object.values: the order in
\* which the sessions were registered.
Registered(m) == {m[sid] : sid \in DOMAIN m}

\* gemini.ts:61-64: the transports the outcome of a tool call of session sid is
\* pushed on; the older IDEServer (diff-manager.ts:157-164) pushes on all of them.
PushOnAll(m, sid) == Registered(m)
PushTargets(m, sid) == IF sid # 0 /\ sid \in DOMAIN m THEN {m[sid]} ELSE {}

\* gemini.ts:65-84: the outcome notification of a result of showDiff
OutcomeNotification(p, ret, to) ==
  [op |-> "notify", path |-> p, error |-> "none", to |-> to,
   method |-> IF ret.type = "accepted" THEN "ide/diffAccepted" ELSE "ide/diffClosed",
   content |-> IF ret.type = "accepted" THEN ret.content ELSE "undefined"]

\* diff-manager.ts:60-65: the unlink is not awaited and its failure is caught and
\* logged, activeDiffs.delete runs whatever becomes of it; EntryIfUnlinked is a
\* teardown that a failed unlink ends.
EntryIfUnlinked(m, p, unlinkOk) == IF unlinkOk THEN ActiveDiffsDelete(m, p) ELSE m
EntryAfterUnlink(m, p, unlinkOk) == ActiveDiffsDelete(m, p)

\* diff-manager.ts:27-70: the continuation of showDiff once diff() has settled:
\*   28 tempContent = await fs.readFile(newFilePath)   (rejects if the file is gone)
\*   60 fs.unlink(newFilePath).catch(log)              (not awaited, may fail)
\*   65 activeDiffs.delete(filePath)
\*   66 return {type: result, content: tempContent}
\* and, showDiff having returned, the rest of the tool handler (gemini.ts:60-86):
\* the outcome notification goes to the transport of the call's session, if that
\* session is still registered.
TearDown(p) ==
  /\ UNCHANGED otherVars
  /\ alive
  /\ rev[p].pc = "settled"
  /\ LET f == NewFilePath(p)
         to == PushTargets(transports, rev[p].sid)
     IN
     IF disk[f] = NoFile THEN
       /\ rev' = [rev EXCEPT ![p].pc = "failed"]
       /\ last' = NoOp
       /\ UNCHANGED <<disk, activeDiffs>>
     ELSE
       /\ last' = IF to = {} THEN NoOp
                  ELSE OutcomeNotification(p, ShowDiffResult(rev[p], disk[f]), to)
       /\ \E unlinkOk \in BOOLEAN :
            /\ disk' = IF unlinkOk THEN [disk EXCEPT ![f] = NoFile] ELSE disk
            /\ activeDiffs' = EntryAfterUnlink(activeDiffs, p, unlinkOk)
       /\ rev' = [rev EXCEPT ![p].pc = "done",
                             ![p].nUnlink = @ + 1,
                             ![p].ret = ShowDiffResult(rev[p], disk[f])]
  /\ UNCHANGED <<bridgeVars, channel, diffCounter, keyListeners, bufs, shown, keymaps>>

\* diff-manager.ts:73-91  closeDiff: no entry for the path: return; otherwise close
\* every window that shows the old or the proposed file, which fires BufWinLeave
\* on it.  nvim.windows rejects when the channel is down.
CloseDiffNoGuard(p) ==
  /\ connected
  /\ last' = [op |-> "closeDiff", path |-> p, error |-> "none"]
  /\ shown' = [f \in AllFiles |-> IF f \in {p, NewFilePath(p)} THEN FALSE ELSE shown[f]]
  /\ Deliver(BridgeState,
       (IF shown[p] THEN HookNotes(hooks, "BufWinLeave", p) ELSE <<>>)
       \o (IF shown[NewFilePath(p)]
             THEN HookNotes(hooks, "BufWinLeave", NewFilePath(p)) ELSE <<>>))
  /\ UNCHANGED <<callbackIdCounter, subscriptions, hooks, fired, firedGone, channel,
                 diffCounter, activeDiffs, disk, bufs, keymaps>>

closeDiff(p) ==
  IF p \notin DOMAIN activeDiffs THEN
    /\ last' = [op |-> "closeDiff", path |-> p, error |-> "none"]
    /\ UNCHANGED <<bridgeVars, diffVars>>
  ELSE IF ~connected THEN
    /\ last' = [op |-> "closeDiff", path |-> p, error |-> "connectivity"]
    /\ UNCHANGED <<bridgeVars, diffVars>>
  ELSE
    LET old == activeDiffs[p].oldFilePath
        new == activeDiffs[p].newFilePath
    IN
    /\ last' = [op |-> "closeDiff", path |-> p, error |-> "none"]
    /\ shown' = [shown EXCEPT ![old] = FALSE, ![new] = FALSE]
    /\ Deliver([BridgeState EXCEPT
                  !.rev[p].byClose = /\ rev[p].pc = "open" /\ rev[p].first = "none"
                                     /\ (shown[old] \/ shown[new])],
         (IF shown[old] THEN HookNotes(hooks, "BufWinLeave", old) ELSE <<>>)
         \o (IF shown[new] THEN HookNotes(hooks, "BufWinLeave", new) ELSE <<>>))
    /\ UNCHANGED <<callbackIdCounter, subscriptions, hooks, fired, firedGone, channel,
                   diffCounter, activeDiffs, disk, bufs, keymaps>>

CloseDiff(p) == alive /\ closeDiff(p) /\ UNCHANGED otherVars

----------------------------------------------------------------------------
\* MCP session router

Uuids == 1..(MaxSessions + 1)

\* gemini.ts:143  sessionIdGenerator: () => randomUUID(): an id no session has had
randomUUID(used) == Uuids \ used

\* gemini.ts:146  this.transports[newSessionId] = transport
TransportsSet(m, sid, t) ==
  [x \in (DOMAIN m) \cup {sid} |-> IF x = sid THEN t ELSE m[x]]

\* gemini.ts:166  delete this.transports[transport.sessionId]
TransportsKeep(m, sid) == m
TransportsDelete(m, sid) == [x \in (DOMAIN m) \ {sid} |-> m[x]]

\* The step answered no HTTP request.
NoReply == [op |-> "none", sid |-> 0, isInit |-> FALSE, status |-> 0, code |-> 0]

\* gemini.ts:139-170: what POST /mcp does with a request, by its session header
\* (0: none) and its body
\*   139 sessionId && this.transports[sessionId]        the session's transport
\*   141 !sessionId && isInitializeRequest(req.body)    a new transport
\*   170 otherwise                                      400
\* PostRouteByBody takes every initialize request that finds no session for a new
\* one, PostRouteInitFirst every initialize request.
PostRouteInitFirst(sid, isInit, known) ==
  IF isInit THEN "initialize"
  ELSE IF sid # 0 /\ sid \in known THEN "session"
  ELSE "bad"
PostRouteByBody(sid, isInit, known) ==
  IF sid # 0 /\ sid \in known THEN "session"
  ELSE IF isInit THEN "initialize"
  ELSE "bad"
PostRoute(sid, isInit, known) ==
  IF sid # 0 /\ sid \in known THEN "session"
  ELSE IF sid = 0 /\ isInit THEN "initialize"
  ELSE "bad"

\* gemini.ts:133-203  POST /mcp
\*   139-140 a known session id: its transport handles the request
\*   141-169 no session id and an initialize request: a new transport with its
\*           keep-alive interval and its onclose; handleRequest (187) generates the
\*           session id and onsessioninitialized (144-147) registers the transport
\*   170-184 anything else: 400 with the JSON-RPC error -32000
PostMcp(sid, isInit) ==
  LET route == PostRoute(sid, isInit, DOMAIN transports)
  IN
  /\ pushFailed' = 0 /\ last' = NoOp
  /\ UNCHANGED <<bridgeVars, diffVars, trackerVars, claudeVars>>
  /\ IF route = "session" THEN
       /\ reply' = [op |-> "POST", sid |-> sid, isInit |-> isInit, status |-> 200,
                    code |-> 0]
       /\ UNCHANGED <<transports, conns, sessionsWithInitialNotification, broadcasts>>
     ELSE IF route = "initialize" THEN
       /\ Len(conns) < MaxSessions
       /\ \E u \in randomUUID({conns[i].sessionId : i \in DOMAIN conns}) :
            /\ conns' = Append(conns, [sessionId |-> u, closed |-> FALSE,
                                        keepAlive |-> TRUE, got |-> 0, gotClosed |-> 0,
                                        initial |-> 0, pingedClosed |-> FALSE,
                                        pingFailed |-> FALSE, pingedFailed |-> FALSE,
                                        getting |-> 0, initialClosed |-> 0])
            /\ transports' = TransportsSet(transports, u, Len(conns) + 1)
       /\ reply' = [op |-> "POST", sid |-> sid, isInit |-> isInit, status |-> 200,
                    code |-> 0]
       /\ UNCHANGED <<sessionsWithInitialNotification, broadcasts>>
     ELSE
       /\ reply' = [op |-> "POST", sid |-> sid, isInit |-> isInit, status |-> 400,
                    code |-> -32000]
       /\ UNCHANGED <<transports, conns, sessionsWithInitialNotification, broadcasts>>

\* gemini.ts:141-202  POST /mcp with no session id and an initialize request whose
\* handling fails: the transport is made, its keep-alive interval is set (149) and
\* its onclose (161), and then transport.handleRequest (187) throws, or answers
\* with an error of its own, before it has generated a session id:
\* onsessioninitialized is not called, the transport is in this.transports under
\* no id, and the catch (188-201) answers 500 if nothing was sent.
PostMcpInitFails ==
  /\ pushFailed' = 0 /\ last' = NoOp
  /\ UNCHANGED <<bridgeVars, diffVars, trackerVars, claudeVars>>
  /\ PostRoute(0, TRUE, DOMAIN transports) = "initialize"
  /\ Len(conns) < MaxSessions
  /\ conns' = Append(conns, [sessionId |-> 0, closed |-> FALSE,
                              keepAlive |-> TRUE, got |-> 0, gotClosed |-> 0,
                              initial |-> 0, pingedClosed |-> FALSE,
                              pingFailed |-> FALSE, pingedFailed |-> FALSE,
                              getting |-> 0, initialClosed |-> 0])
  /\ reply' = [op |-> "POST", sid |-> 0, isInit |-> TRUE, status |-> 500,
               code |-> -32603]
  /\ UNCHANGED <<transports, sessionsWithInitialNotification, broadcasts>>

\* gemini.ts:206-237  GET /mcp: 400 without a known session; otherwise the transport
\* handles the request, and the first GET of a session gets the context update
\* (230-236): initial counts these.
GetMcp(sid) ==
  /\ pushFailed' = 0 /\ last' = NoOp
  /\ UNCHANGED <<bridgeVars, diffVars, trackerVars, claudeVars>>
  /\ IF sid = 0 \/ sid \notin DOMAIN transports THEN
       /\ reply' = [op |-> "GET", sid |-> sid, isInit |-> FALSE, status |-> 400, code |-> 0]
       /\ UNCHANGED <<transports, conns, sessionsWithInitialNotification, broadcasts>>
     ELSE IF sid \notin sessionsWithInitialNotification THEN
       /\ conns' = [conns EXCEPT ![transports[sid]].initial = @ + 1]
       /\ sessionsWithInitialNotification' = sessionsWithInitialNotification \cup {sid}
       /\ reply' = [op |-> "GET", sid |-> sid, isInit |-> FALSE, status |-> 200, code |-> 0]
       /\ UNCHANGED <<transports, broadcasts>>
     ELSE
       /\ reply' = [op |-> "GET", sid |-> sid, isInit |-> FALSE, status |-> 200, code |-> 0]
       /\ UNCHANGED <<transports, conns, sessionsWithInitialNotification, broadcasts>>

\* gemini.ts:206-220  GET /mcp up to  await transport.handleRequest(req, res):
\* 400 without a known session; otherwise the handler waits for the transport, and
\* other callbacks of the event loop run meanwhile.  getting counts the GET requests
\* of a transport that wait there.
GetMcpAwait(sid) ==
  /\ pushFailed' = 0 /\ last' = NoOp
  /\ UNCHANGED <<bridgeVars, diffVars, trackerVars, claudeVars>>
  /\ IF sid = 0 \/ sid \notin DOMAIN transports THEN
       /\ reply' = [op |-> "GET", sid |-> sid, isInit |-> FALSE, status |-> 400, code |-> 0]
       /\ UNCHANGED <<transports, conns, sessionsWithInitialNotification, broadcasts>>
     ELSE
       /\ conns[transports[sid]].getting < MaxGets
       /\ conns' = [conns EXCEPT ![transports[sid]].getting = @ + 1]
       /\ reply' = NoReply
       /\ UNCHANGED <<transports, sessionsWithInitialNotification, broadcasts>>

\* gemini.ts:220-236  GET /mcp after the await: the handler still holds the
\* transport and the session id it started with; when the set has no entry for the
\* session, the context update is sent on the transport and the entry is added.
\* initialClosed counts the context updates sent on a transport after it had closed.
GetMcpResume(t) ==
  /\ t \in DOMAIN conns
  /\ conns[t].getting > 0
  /\ pushFailed' = 0 /\ last' = NoOp
  /\ UNCHANGED <<bridgeVars, diffVars, trackerVars, claudeVars, transports, broadcasts>>
  /\ reply' = [op |-> "GET", sid |-> conns[t].sessionId, isInit |-> FALSE,
               status |-> 200, code |-> 0]
  /\ IF conns[t].sessionId \notin sessionsWithInitialNotification THEN
       /\ conns' = [conns EXCEPT ![t].getting = @ - 1,
                                 ![t].initial = @ + 1,
                                 ![t].initialClosed = IF conns[t].closed THEN @ + 1 ELSE @]
       /\ sessionsWithInitialNotification' =
            sessionsWithInitialNotification \cup {conns[t].sessionId}
     ELSE
       /\ conns' = [conns EXCEPT ![t].getting = @ - 1]
       /\ UNCHANGED sessionsWithInitialNotification

\* gemini.ts:162 clearInterval(keepAlive); IntervalKept leaves the timer armed.
IntervalKept(c) == c
clearInterval(c) == [c EXCEPT !.keepAlive = FALSE]

\* gemini.ts:161-168  transport.onclose
TransportClose(t) ==
  /\ t \in DOMAIN conns
  /\ ~conns[t].closed
  /\ conns' = [conns EXCEPT ![t] = clearInterval([@ EXCEPT !.closed = TRUE])]
  /\ sessionsWithInitialNotification' =
       sessionsWithInitialNotification \ {conns[t].sessionId}
  /\ transports' = TransportsDelete(transports, conns[t].sessionId)
  /\ reply' = NoReply /\ pushFailed' = 0 /\ last' = NoOp
  /\ UNCHANGED <<broadcasts, bridgeVars, diffVars, trackerVars, claudeVars>>

\* gemini.ts:122-127  the loop of the onDidChange listener.  transport.send returns
\* a promise (gemini.ts:23, not awaited): a send that fails rejects that promise and
\* the loop goes on.  PushUntilFailure is a loop that the failure of transport f
\* leaves; f = 0: no send fails.
PushUntilFailure(cs, m, f) ==
  [t \in DOMAIN cs |->
     IF t \in Registered(m) /\ (f = 0 \/ t <= f)
       THEN [cs[t] EXCEPT !.got = @ + 1,
                          !.gotClosed = IF cs[t].closed THEN @ + 1 ELSE @]
       ELSE cs[t]]
PushAll(cs, m, f) ==
  [t \in DOMAIN cs |->
     IF t \in Registered(m)
       THEN [cs[t] EXCEPT !.got = @ + 1,
                          !.gotClosed = IF cs[t].closed THEN @ + 1 ELSE @]
       ELSE cs[t]]

\* gemini.ts:121-128  the onDidChange listener: a context update is sent on every
\* transport of this.transports.  got counts the sends made on a transport,
\* gotClosed those made after it had closed; at most one send of a broadcast fails.
Broadcast ==
  /\ broadcasts < MaxPush
  /\ broadcasts' = broadcasts + 1
  /\ \E f \in {0} \cup Registered(transports) :
       /\ conns' = PushAll(conns, transports, f)
       /\ pushFailed' = f
  /\ reply' = NoReply /\ last' = NoOp
  /\ UNCHANGED <<transports, sessionsWithInitialNotification, bridgeVars, diffVars,
                 trackerVars, claudeVars>>

\* gemini.ts:149-158  the keep-alive interval of a transport fires:
\*   try { transport.send(ping) } catch (e) { ...; clearInterval(keepAlive) }
\* The promise send returns is not awaited.  outcome is what the send does: "ok",
\* "throws" (an exception in the call itself, which the catch takes) or "rejects"
\* (the promise is rejected later, which no catch takes).  pingFailed records that
\* a ping of the transport failed, pingedFailed a ping attempted after that,
\* pingedClosed a ping attempted on a transport that had closed.
AfterPing(c, outcome) ==
  LET c1 == [c EXCEPT !.pingedClosed = @ \/ c.closed,
                      !.pingedFailed = @ \/ c.pingFailed,
                      !.pingFailed = @ \/ outcome # "ok"]
  IN  IF outcome = "throws" \/ c.closed THEN clearInterval(c1) ELSE c1

KeepAlive(t, outcome) ==
  /\ t \in DOMAIN conns
  /\ conns[t].keepAlive
  /\ conns' = [conns EXCEPT ![t] = AfterPing(@, outcome)]
  /\ reply' = NoReply /\ pushFailed' = 0 /\ last' = NoOp
  /\ UNCHANGED <<transports, sessionsWithInitialNotification, broadcasts, bridgeVars,
                 diffVars, trackerVars, claudeVars>>

----------------------------------------------------------------------------
\* Open-file tracker

\* The files of the editor are numbered in the order in which the tracker first
\* hears of them.
FileIds == 1..(MAX_FILES + MaxExtra)

IndexOf(fs, path) ==
  IF \E i \in DOMAIN fs : fs[i].path = path
    THEN CHOOSE i \in DOMAIN fs :
           fs[i].path = path /\ \A j \in 1..(i - 1) : fs[j].path # path
    ELSE 0

\* Array.prototype.splice(start, deleteCount) with no items to insert
Splice(fs, start, cnt) ==
  SubSeq(fs, 1, start) \o SubSeq(fs, start + cnt + 1, Len(fs))

\* open-files-manager.ts:78-109  addFile
\*   80-88   the file cannot be accessed: it is dropped from the list
\*   90-94   it is in the list: it moves to the end
\*   96-107  it is new: pushed at the end, unless its buffer is not found or is a
\*           nofile buffer
\* AddFileInPlace leaves a file that is in the list where it is.
AddFileInPlace(fs, path, exists, listable) ==
  LET idx == IndexOf(fs, path)
  IN  IF ~exists THEN (IF idx # 0 THEN Splice(fs, idx - 1, 1) ELSE fs)
      ELSE IF idx # 0 THEN fs
      ELSE IF listable THEN Append(fs, [path |-> path, isActive |-> FALSE])
      ELSE fs
addFile(fs, path, exists, listable) ==
  LET idx == IndexOf(fs, path)
  IN  IF ~exists THEN (IF idx # 0 THEN Splice(fs, idx - 1, 1) ELSE fs)
      ELSE IF idx # 0 THEN Append(Splice(fs, idx - 1, 1), fs[idx])
      ELSE IF listable THEN Append(fs, [path |-> path, isActive |-> FALSE])
      ELSE fs

\* open-files-manager.ts:118-123  remove
remove(fs, path) ==
  LET idx == IndexOf(fs, path)
  IN  IF idx # 0 THEN Splice(fs, idx - 1, 1) ELSE fs

\* open-files-manager.ts:125-127  clearActive
KeepActive(fs) == fs
clearActive(fs) == [i \in DOMAIN fs |-> [fs[i] EXCEPT !.isActive = FALSE]]

\* open-files-manager.ts:129-147  updateActiveFile: when the buffer of the event is
\* the current buffer, and not a nofile buffer, and the file is in the list, the
\* flags are cleared and the file is flagged.
updateActiveFile(fs, path, isCurrent) ==
  LET idx == IndexOf(fs, path)
  IN  IF isCurrent /\ idx # 0
        THEN [clearActive(fs) EXCEPT ![idx].isActive = TRUE]
        ELSE fs

\* open-files-manager.ts:56-59: if (files.length > MAX_FILES)
\*   files.splice(MAX_FILES - 1, files.length - MAX_FILES)
Truncate(fs) ==
  IF Len(fs) > MAX_FILES THEN Splice(fs, MAX_FILES - 1, Len(fs) - MAX_FILES) ELSE fs

\* open-files-manager.ts:39-60  what the autocmd callback does with the list
\*   40-48 BufWritePost / BufEnter: addFile; BufDelete: remove
\*   52-54 updateActiveFile
\*   55-60 the truncation
FilesAfter(fs, event, path, exists, listable, isCurrent) ==
  Truncate(updateActiveFile(IF event = "BufDelete" THEN remove(fs, path)
                            ELSE addFile(fs, path, exists, listable),
                            path, isCurrent))

\* open-files-manager.ts:33-34, 150-175  initialize: initFiles lists the k file
\* buffers the editor has, none of them flagged; then the autocmd is registered.
Initialize(k) ==
  /\ ~tracking
  /\ tracking' = TRUE
  /\ files' = [i \in 1..k |-> [path |-> i, isActive |-> FALSE]]
  /\ nSeen' = k
  /\ inOrder' = (k = 0)
  /\ UNCHANGED <<debounceVars, reflagged, asyncVars, bridgeVars, diffVars, last,
                 routerVars, claudeVars>>

\* open-files-manager.ts:68-70  clearTimeout(this.debounceTimer): the timeout set by
\* the previous call, if it is still set, is dropped; TimeoutKept drops none.
TimeoutKept(ts, call) == ts
clearTimeout(ts, call) == IF call = -1 THEN ts ELSE ts \ {call + DEBOUNCE_MS}

\* open-files-manager.ts:36-65  the autocmd callback, for an event on file `path`:
\*   40-48 BufWritePost / BufEnter: addFile; BufDelete: remove
\*   52-54 updateActiveFile
\*   55-60 the truncation
\*   61-63 fireWithDebounce (67-75): the timeout of the previous call is cleared
\*         and a timeout of DEBOUNCE_MS is set
\* exists: fs.access succeeds; listable: the buffer is found and is no nofile
\* buffer; isCurrent: the buffer is the current one and is no nofile buffer.
\* The event is on the next new file of the editor or on one of its first MaxOld
\* files.  A timeout that is due runs before the step.
TrackerEvent(event, path, exists, listable, isCurrent) ==
  LET f1 == IF event = "BufDelete" THEN remove(files, path)
            ELSE addFile(files, path, exists, listable)
      f2 == updateActiveFile(f1, path, isCurrent)
      f3 == FilesAfter(files, event, path, exists, listable, isCurrent)
      new == path = nSeen + 1
      newBurst == lastCall = -1 \/ now - lastCall >= DEBOUNCE_MS
  IN
  /\ tracking
  /\ new \/ path <= MaxOld
  /\ path <= nSeen + 1
  /\ now <= MaxTicks * TickMs
  /\ \A d \in timers : now < d
  /\ files' = f3
  /\ nSeen' = IF new /\ f1 # files THEN nSeen + 1 ELSE nSeen
  /\ inOrder' = (inOrder /\ (new \/ f1 = files))
  /\ reflagged' = (reflagged \/ (/\ f2 # f1
                                  /\ \E i \in DOMAIN f1 :
                                       f1[i].isActive /\ f1[i].path # path))
  /\ debounceTimer' = "armed"
  /\ timers' = clearTimeout(timers, lastCall) \cup {now + DEBOUNCE_MS}
  /\ lastCall' = now
  /\ burstCalls' = IF newBurst THEN 1
                   ELSE IF burstCalls < MaxBurst THEN burstCalls + 1 ELSE burstCalls
  /\ callEmits' = IF newBurst THEN 0 ELSE callEmits
  /\ UNCHANGED <<now, tracking, asyncVars, bridgeVars, diffVars, last, routerVars,
                 claudeVars>>

\* open-files-manager.ts:71-74  a timeout is due: onDidChange is emitted
DebounceFire ==
  /\ \E d \in timers :
       /\ now >= d
       /\ timers' = timers \ {d}
       /\ debounceTimer' = IF d = lastCall + DEBOUNCE_MS THEN "fired" ELSE debounceTimer
  /\ callEmits' = callEmits + 1
  /\ UNCHANGED <<now, lastCall, burstCalls, files, tracking, nSeen, inOrder, reflagged,
                 asyncVars, bridgeVars, diffVars, last, routerVars,
                 claudeVars>>

\* Time passes, unless a timeout is due; the clock stops when no update can be
\* handled any more and no timeout is set.
Tick ==
  /\ \A d \in timers : now < d
  /\ now <= MaxTicks * TickMs \/ timers # {}
  /\ now' = now + TickMs
  /\ UNCHANGED <<debounceTimer, timers, lastCall, burstCalls, callEmits, files,
                 tracking, nSeen, inOrder, reflagged, asyncVars, bridgeVars, diffVars,
                 last, routerVars,
                 claudeVars>>

\* The autocmd callback as the event loop runs it.  The callback is async and its
\* promise chain is awaited by nobody (open-files-manager.ts:39-64), so a run that
\* waits at an await lets the runs of other events in.  A run is
\*   "access"      in addFile at  await fs.access(filePath)             (80)
\*   "findBuffer"  in addFile at  await findBuffer / buffer.getOption   (96-98)
\*   "active"      in updateActiveFile at  await nvim.buffer.id ...     (133-136)
\* The files of these events are 1 and 2.
AsyncPaths == {1, 2}

\* open-files-manager.ts:36-48: an event arrives and the callback runs up to its
\* first await.  BufDelete: remove runs at once (44) and the run goes on to
\* updateActiveFile (53); BufEnter / BufWritePost: addFile waits for fs.access.
EventArrives(event, path) ==
  /\ tracking
  /\ nEvents < MaxEvents
  /\ nEvents' = nEvents + 1
  /\ lastEvent' = [lastEvent EXCEPT ![path] = event]
  /\ files' = IF event = "BufDelete" THEN remove(files, path) ELSE files
  /\ inflight' = inflight \cup
       {[id |-> nEvents + 1, event |-> event, path |-> path,
         pc |-> IF event = "BufDelete" THEN "active" ELSE "access"]}
  /\ UNCHANGED <<tracking, debounceVars, nSeen, inOrder, reflagged, bridgeVars,
                 diffVars, last, routerVars, claudeVars>>

\* open-files-manager.ts:80-95: fs.access has settled.  A file that cannot be
\* accessed is dropped (81-88), a file that is in the list now moves to the end
\* (90-94); for any other file the run waits for findBuffer (96).
AccessDone(h, exists) ==
  /\ h \in inflight
  /\ h.pc = "access"
  /\ IF ~exists \/ IndexOf(files, h.path) # 0
       THEN /\ files' = addFile(files, h.path, exists, FALSE)
            /\ inflight' = (inflight \ {h}) \cup {[h EXCEPT !.pc = "active"]}
       ELSE /\ files' = files
            /\ inflight' = (inflight \ {h}) \cup {[h EXCEPT !.pc = "findBuffer"]}
  /\ UNCHANGED <<tracking, debounceVars, nSeen, inOrder, reflagged, lastEvent, nEvents,
                 bridgeVars, diffVars, last, routerVars, claudeVars>>

\* open-files-manager.ts:96-107: findBuffer and getOption have settled: the file is
\* pushed, unless the buffer was not found or is a nofile buffer.
FindBufferDone(h, listable) ==
  /\ h \in inflight
  /\ h.pc = "findBuffer"
  /\ files' = IF listable THEN Append(files, [path |-> h.path, isActive |-> FALSE])
              ELSE files
  /\ inflight' = (inflight \ {h}) \cup {[h EXCEPT !.pc = "active"]}
  /\ UNCHANGED <<tracking, debounceVars, nSeen, inOrder, reflagged, lastEvent, nEvents,
                 bridgeVars, diffVars, last, routerVars, claudeVars>>

\* open-files-manager.ts:133-147, 55-63: the awaits of updateActiveFile have
\* settled: the flags are set, the list is truncated, fireWithDebounce is called
\* and the run ends.
ActiveDone(h, isCurrent) ==
  LET newBurst == lastCall = -1 \/ now - lastCall >= DEBOUNCE_MS
  IN
  /\ h \in inflight
  /\ h.pc = "active"
  /\ files' = Truncate(updateActiveFile(files, h.path, isCurrent))
  /\ inflight' = inflight \ {h}
  /\ debounceTimer' = "armed"
  /\ timers' = clearTimeout(timers, lastCall) \cup {now + DEBOUNCE_MS}
  /\ lastCall' = now
  /\ burstCalls' = IF newBurst THEN 1
                   ELSE IF burstCalls < MaxBurst THEN burstCalls + 1 ELSE burstCalls
  /\ callEmits' = IF newBurst THEN 0 ELSE callEmits
  /\ UNCHANGED <<now, tracking, nSeen, inOrder, reflagged, lastEvent, nEvents,
                 bridgeVars, diffVars, last, routerVars, claudeVars>>

----------------------------------------------------------------------------
\* Tools of the Claude server

\* The files the tools are called on
ClaudeFiles == {"f1", "f2"}

NoAnswer == [tool |-> "none"]

\* findFileBuffer(filePath) of neovim.js: the buffer that holds the file, or null
findFileBuffer(bs, f) == IF bs[f] = "none" THEN "null" ELSE f

\* buf.getOption('modified')
Modified(bs, f) == bs[f] = "dirty"

\* claude.ts, the checkDocumentDirty handler (claude.test.ts:333-359)
\*   334-345 no buffer: {success: false, message: `Document not open: ...`}
\*   346-358 {success: true, filePath, isDirty: buf.getOption('modified'), ...}
\* DirtyReplyAsOpen answers for every file as for an open one.
DirtyReplyAsOpen(bs, f) ==
  [tool |-> "checkDocumentDirty", filePath |-> f, success |-> TRUE,
   isDirty |-> Modified(bs, f), message |-> ""]
DirtyReply(bs, f) ==
  IF findFileBuffer(bs, f) = "null"
    THEN [tool |-> "checkDocumentDirty", filePath |-> f, success |-> FALSE,
          isDirty |-> FALSE, message |-> "Document not open"]
    ELSE [tool |-> "checkDocumentDirty", filePath |-> f, success |-> TRUE,
          isDirty |-> Modified(bs, f), message |-> ""]

CheckDocumentDirty(f) ==
  /\ answer' = DirtyReply(nbufs, f)
  /\ UNCHANGED <<nbufs, current, bridgeVars, diffVars, last, routerVars, trackerVars,
                 httpVars>>

\* claude.ts, the openFile handler (claude.test.ts:287-323), for a buffer that
\* openFile returned
\*   293-302 makeFrontmost: activeBuffer(buffer); the text `Opened file: ...`
\*   303-316 otherwise: the JSON text {success: true, filePath, fileUrl, message}
\* OpenFileReplyText answers with the plain text in both cases.
OpenFileReplyText(f, makeFrontmost) ==
  [tool |-> "openFile", filePath |-> f, makeFrontmost |-> makeFrontmost,
   kind |-> "text", text |-> <<"Opened file: ", f>>, success |-> TRUE]
OpenFileReply(f, makeFrontmost) ==
  IF makeFrontmost
    THEN [tool |-> "openFile", filePath |-> f, makeFrontmost |-> makeFrontmost,
          kind |-> "text", text |-> <<"Opened file: ", f>>, success |-> TRUE]
    ELSE [tool |-> "openFile", filePath |-> f, makeFrontmost |-> makeFrontmost,
          kind |-> "json", text |-> <<>>, success |-> TRUE]

\* activeBuffer(buffer) of neovim.js: the buffer becomes the current one
activeBuffer(cur, f) == f

\* openFile(filePath) of neovim.js: the file is loaded in a listed buffer, if it
\* has none, and the buffer is returned
openFile(bs, f) == [bs EXCEPT ![f] = IF @ = "none" THEN "clean" ELSE @]

\* claude.test.ts:293-294  if (args.makeFrontmost) await activeBuffer(buffer);
CurrentAfterOpen(cur, f, makeFrontmost) ==
  IF makeFrontmost THEN activeBuffer(cur, f) ELSE cur

\* claude.ts, the openFile tool (claude.test.ts:287-323).  Whether openFile itself
\* makes the buffer the current one is left open (focus).
OpenFileTool(f, makeFrontmost) ==
  /\ nbufs' = openFile(nbufs, f)
  /\ \E focus \in BOOLEAN :
       current' = CurrentAfterOpen(IF focus THEN f ELSE current, f, makeFrontmost)
  /\ answer' = OpenFileReply(f, makeFrontmost)
  /\ UNCHANGED <<bridgeVars, diffVars, last, routerVars, trackerVars,
                 httpVars>>

\* The user edits the file f in a window: :edit f
EditorOpen(f) ==
  /\ nbufs' = openFile(nbufs, f)
  /\ current' = f
  /\ answer' = NoAnswer
  /\ UNCHANGED <<bridgeVars, diffVars, last, routerVars, trackerVars,
                 httpVars>>

\* The text of the buffer of f is changed (buf.setLines): modified is set
EditorModify(f) ==
  /\ nbufs[f] # "none"
  /\ nbufs' = [nbufs EXCEPT ![f] = "dirty"]
  /\ answer' = NoAnswer
  /\ UNCHANGED <<current, bridgeVars, diffVars, last, routerVars, trackerVars,
                 httpVars>>

\* :w writes the current buffer: modified is reset
EditorSave ==
  /\ current \in ClaudeFiles
  /\ nbufs[current] # "none"
  /\ nbufs' = [nbufs EXCEPT ![current] = IF @ = "dirty" THEN "saved" ELSE @]
  /\ answer' = NoAnswer
  /\ UNCHANGED <<current, bridgeVars, diffVars, last, routerVars, trackerVars,
                 httpVars>>

\* :bwipeout of an unmodified buffer
EditorWipe(f) ==
  /\ nbufs[f] \in {"clean", "saved"}
  /\ nbufs' = [nbufs EXCEPT ![f] = "none"]
  /\ current' = IF current = f THEN "scratch" ELSE current
  /\ answer' = NoAnswer
  /\ UNCHANGED <<bridgeVars, diffVars, last, routerVars, trackerVars,
                 httpVars>>

----------------------------------------------------------------------------
\* Endpoints of the Claude server

\* claude-schema.ts (unnamed/part_001:76,78)  enum ErrorCode
MethodNotFound == -32601
InternalError == -32603

\* The method names of the requests.  "toString" and "__proto__" are names every
\* object has from Object.prototype.
Methods == {"initialize", "tools/list", "custom", "toString", "__proto__"}

\* What a call of Object.prototype[name] does when it is called as a handler:
\* toString is a function and returns a string, __proto__ is no function and the
\* call throws a TypeError.
ObjectPrototype == [toString |-> "returns", __proto__ |-> "throws"]

\* claude.test.ts:660  this.jsonRPCRequestHandler[req.body.method] on the object
\* of line 598 (= {}): the own property, else the inherited one, else undefined
HandlerOf(table, method) ==
  IF method \in DOMAIN table THEN table[method]
  ELSE IF method \in DOMAIN ObjectPrototype THEN ObjectPrototype[method]
  ELSE "undefined"

\* claude.test.ts:646-648  registerRequestHandler(method, handler); the handler
\* returns a result or throws an Error
RegisterRequestHandler(method, does) ==
  /\ jsonRPCRequestHandler' =
       [m \in (DOMAIN jsonRPCRequestHandler) \cup {method} |->
          IF m = method THEN does ELSE jsonRPCRequestHandler[m]]
  /\ response' = [op |-> "none"]
  /\ UNCHANGED <<sseTransports, sseConns, nbufs, current, answer, bridgeVars, diffVars,
                 last, routerVars, trackerVars>>

\* claude.test.ts:657-694  POST /claude of the server that answers JSON-RPC itself
\*   659,693  a body that is no JSON-RPC request: 400 'Invalid request'
\*   660-680  a handler: its result (669), or 500 with InternalError if it throws
\*   681-691  no handler: 404 with MethodNotFound
\* body.rpc says whether isJSONRPCRequest(req.body) holds.
PostClaudeRpc(body) ==
  LET handler == HandlerOf(jsonRPCRequestHandler, body.method)
      registered == body.method \in DOMAIN jsonRPCRequestHandler
      sent == [op |-> "POST /claude", rpc |-> body.rpc, method |-> body.method,
               registered |-> registered, does |-> handler, status |-> 0, code |-> 0]
  IN
  /\ response' =
       IF ~body.rpc THEN [sent EXCEPT !.status = 400]
       ELSE IF handler = "undefined"
         THEN [sent EXCEPT !.status = 404, !.code = MethodNotFound]
       ELSE IF handler = "throws"
         THEN [sent EXCEPT !.status = 500, !.code = InternalError]
       ELSE [sent EXCEPT !.status = 200]
  /\ UNCHANGED <<jsonRPCRequestHandler, sseTransports, sseConns, nbufs, current, answer,
                 bridgeVars, diffVars, last, routerVars, trackerVars>>

\* claude.test.ts:374-378 (part_000:71-75)  GET /sse: a new SSEServerTransport, whose
\* session id is a fresh UUID, is connected and put in this.transports.  No onclose
\* is set on it.
GetSse ==
  /\ Len(sseConns) < MaxSessions
  /\ \E u \in randomUUID({sseConns[i].sessionId : i \in DOMAIN sseConns}) :
       /\ sseConns' = Append(sseConns, [sessionId |-> u, closed |-> FALSE, handed |-> 0,
                                         handedClosed |-> 0])
       /\ sseTransports' = TransportsSet(sseTransports, u, Len(sseConns) + 1)
  /\ response' = [op |-> "none"]
  /\ UNCHANGED <<jsonRPCRequestHandler, nbufs, current, answer, bridgeVars, diffVars,
                 last, routerVars, trackerVars>>

\* The client of an SSE transport goes away: the response stream closes and the
\* transport is closed.  The server has registered nothing that runs then.
SseClose(t) ==
  /\ t \in DOMAIN sseConns
  /\ ~sseConns[t].closed
  /\ sseConns' = [sseConns EXCEPT ![t].closed = TRUE]
  /\ response' = [op |-> "none"]
  /\ UNCHANGED <<jsonRPCRequestHandler, sseTransports, nbufs, current, answer,
                 bridgeVars, diffVars, last, routerVars, trackerVars>>

\* claude.test.ts:379-395 (part_000:76-92)  POST /claude?sessionId=sid
\*   382-391  the transport of the session: transport.handleMessage(req.body), then
\*            200 'OK', or 400 'Bad Request:...' if the promise rejects
\*   392-394  no transport: 400 'Invalid session ID'
\* handed counts the messages given to a transport, handedClosed those given to it
\* after it had closed.
PostClaude(sid) ==
  /\ UNCHANGED <<jsonRPCRequestHandler, sseTransports, nbufs, current, answer,
                 bridgeVars, diffVars, last, routerVars, trackerVars>>
  /\ IF sid \in DOMAIN sseTransports THEN
       LET t == sseTransports[sid] IN
       /\ sseConns[t].handed < MaxPosts
       /\ sseConns' = [sseConns EXCEPT
                         ![t].handed = @ + 1,
                         ![t].handedClosed = IF sseConns[t].closed THEN @ + 1 ELSE @]
       /\ \E ok \in BOOLEAN :
            response' = [op |-> "POST /claude", sid |-> sid,
                         status |-> IF ok THEN 200 ELSE 400,
                         text |-> IF ok THEN "OK" ELSE "Bad Request:"]
     ELSE
       /\ response' = [op |-> "POST /claude", sid |-> sid, status |-> 400,
                       text |-> "Invalid session ID"]
       /\ UNCHANGED sseConns

----------------------------------------------------------------------------
InitBridge ==
  /\ autocmdCallbacks = <<>>
  /\ callbackIdCounter = 0
  /\ subscriptions = 0
  /\ hooks = {}
  /\ thens = [h \in Handles |-> [pending |-> 0, ret |-> FALSE, fails |-> FALSE]]
  /\ invoked = [h \in Handles |-> 0]
  /\ fired = [h \in Handles |-> 0]
  /\ firedGone = [h \in Handles |-> 0]
  /\ escaped = {}

InitDiff ==
  /\ connected = TRUE
  /\ alive = TRUE
  /\ diffCounter = 0
  /\ rev = [p \in Paths |-> NoReview]
  /\ activeDiffs = <<>>
  /\ keyListeners = {}
  /\ disk = [f \in AllFiles |-> IF f \in Paths THEN "orig" ELSE NoFile]
  /\ bufs = [f \in AllFiles |-> NoBuf]
  /\ shown = [f \in AllFiles |-> FALSE]
  /\ keymaps = [f \in AllFiles |-> 0]
  /\ last = NoOp

InitRouter ==
  /\ transports = <<>>
  /\ conns = <<>>
  /\ sessionsWithInitialNotification = {}
  /\ broadcasts = 0
  /\ reply = NoReply
  /\ pushFailed = 0

InitTracker ==
  /\ files = <<>>
  /\ tracking = FALSE
  /\ debounceTimer = "null"
  /\ now = 0
  /\ timers = {}
  /\ lastCall = -1
  /\ burstCalls = 0
  /\ callEmits = 0
  /\ nSeen = 0
  /\ inOrder = TRUE
  /\ reflagged = FALSE
  /\ inflight = {}
  /\ lastEvent = [path \in AsyncPaths |-> "none"]
  /\ nEvents = 0

InitClaude ==
  /\ nbufs = [f \in ClaudeFiles |-> "none"]
  /\ current = "scratch"
  /\ answer = NoAnswer
  \* claude.test.ts:602-644: the constructor registers initialize and tools/list
  /\ jsonRPCRequestHandler = [m \in {"initialize", "tools/list"} |-> "returns"]
  /\ sseTransports = <<>>
  /\ sseConns = <<>>
  /\ response = [op |-> "none"]

Init == InitBridge /\ InitDiff /\ InitRouter /\ InitTracker /\ InitClaude

\* The review cycle: reviews are opened, the user edits the proposed pane, presses
\* keys and closes windows, and the reviews are cleaned up and torn down.
NextDiff ==
  \/ \E p \in Paths : ShowDiff(p, "prop")
  \/ \E f \in AllFiles, k \in {"a", "r"} : KeyPress(f, k)
  \/ \E f \in AllFiles : CloseWindow(f)
  \/ \E f \in AllFiles : HumanEdit(f)
  \/ \E p \in Paths : Cleanup(p, FALSE)
  \/ \E p \in Paths : ResolveDiff(p)
  \/ \E p \in Paths : TearDown(p)

SpecDiff == Init /\ [][NextDiff]_vars

\* The review cycle with closeDiff calls from the assistant and with windows the
\* user opens on target files.
NextClose ==
  \/ \E p \in Paths : ShowDiff(p, "prop")
  \/ \E f \in AllFiles, k \in {"a", "r"} : KeyPress(f, k)
  \/ \E f \in AllFiles : CloseWindow(f)
  \/ \E f \in Paths : OpenWindow(f)
  \/ \E p \in Paths : Cleanup(p, FALSE)
  \/ \E p \in Paths : ResolveDiff(p)
  \/ \E p \in Paths : TearDown(p)
  \/ \E p \in Paths : CloseDiff(p)

SpecClose == Init /\ [][NextClose]_vars

\* The review cycle with an editor whose channel can go down.
NextConn ==
  \/ \E p \in Paths : ShowDiff(p, "prop")
  \/ \E f \in AllFiles, k \in {"a", "r"} : KeyPress(f, k)
  \/ \E f \in AllFiles : CloseWindow(f)
  \/ Disconnect
  \/ ProcessExit
  \/ \E p \in Paths : Cleanup(p, FALSE)
  \/ \E p \in Paths : ResolveDiff(p)
  \/ \E p \in Paths : TearDown(p)

SpecConn == Init /\ [][NextConn]_vars

\* The same with an event loop that goes on while the process lives: a settled
\* Promise.all is followed by resolve(result), and no review stays in its cleanup
\* for ever: every editor call of the cleanup is answered or fails, so Cleanup can
\* be taken whenever a review is in its cleanup and the process is alive.  Nothing
\* is assumed of the user or of the channel.
SpecConnFair ==
  /\ SpecConn
  /\ \A p \in Paths :
       /\ WF_vars(ResolveDiff(p))
       /\ []<>(rev[p].pc # "cleanup" \/ ~alive)

\* The review cycle with a user who edits the proposed pane and writes it.
NextWrite ==
  \/ \E p \in Paths : ShowDiff(p, "prop")
  \/ \E f \in AllFiles, k \in {"a", "r"} : KeyPress(f, k)
  \/ \E f \in AllFiles : CloseWindow(f)
  \/ \E f \in AllFiles : HumanEdit(f)
  \/ \E f \in AllFiles : WriteFile(f)
  \/ \E p \in Paths : Cleanup(p, FALSE)
  \/ \E p \in Paths : ResolveDiff(p)
  \/ \E p \in Paths : TearDown(p)

SpecWrite == Init /\ [][NextWrite]_vars

\* The openDiff tool, called for one target, under sessions that come and go while
\* its reviews are open.
NextTool ==
  \/ PostMcp(0, TRUE)
  \/ \E t \in 1..MaxSessions : TransportClose(t)
  \/ ShowDiff(<<"a">>, "prop")
  \/ \E f \in AllFiles, k \in {"a", "r"} : KeyPress(f, k)
  \/ \E f \in AllFiles : CloseWindow(f)
  \/ \E p \in Paths : Cleanup(p, FALSE)
  \/ \E p \in Paths : ResolveDiff(p)
  \/ \E p \in Paths : TearDown(p)

SpecTool == Init /\ [][NextTool]_vars

\* The openDiff and closeDiff tools, called for one target, under sessions that
\* come and go while its reviews are open.
NextCloseTool ==
  \/ PostMcp(0, TRUE)
  \/ \E t \in 1..MaxSessions : TransportClose(t)
  \/ ShowDiff(<<"a">>, "prop")
  \/ CloseDiff(<<"a">>)
  \/ \E f \in AllFiles, k \in {"a", "r"} : KeyPress(f, k)
  \/ \E f \in AllFiles : CloseWindow(f)
  \/ \E p \in Paths : Cleanup(p, FALSE)
  \/ \E p \in Paths : ResolveDiff(p)
  \/ \E p \in Paths : TearDown(p)

SpecCloseTool == Init /\ [][NextCloseTool]_vars

\* The review cycle with an editor that may carry out the delete of the old pane
\* after the process has gone on: the cleanup does not wait for it.  (In the other
\* review cycles the editor has carried it out by the time the cleanup is over.)
NextCleanup ==
  \/ \E p \in Paths : ShowDiff(p, "prop")
  \/ \E f \in AllFiles, k \in {"a", "r"} : KeyPress(f, k)
  \/ \E f \in AllFiles : CloseWindow(f)
  \/ \E p \in Paths, oldLate \in BOOLEAN : Cleanup(p, oldLate)
  \/ \E p \in Paths : OldDeleteLands(p)
  \/ \E p \in Paths : ResolveDiff(p)
  \/ \E p \in Paths : TearDown(p)

SpecCleanup == Init /\ [][NextCleanup]_vars

\* The event bridge under callers of all kinds.
NextBridge ==
  \/ \E kind \in {"sync", "async"}, ret \in BOOLEAN : RegisterAutocmd(kind, ret, FALSE)
  \/ \E h \in hooks : FireHook(h)
  \/ \E h \in Handles : ThenSettle(h)
  \/ \E h \in Handles : UnregisterAutocmd(h)

SpecBridge == Init /\ [][NextBridge]_vars

\* The event bridge, under callers whose callbacks return at once, with
\* notifications for a handle it never gives out.
NextStray ==
  \/ \E ret \in BOOLEAN : RegisterAutocmd("sync", ret, FALSE)
  \/ \E h \in hooks : FireHook(h)
  \/ StrayNotification(MaxHandles + 1)
  \/ \E h \in Handles : UnregisterAutocmd(h)

SpecStray == Init /\ [][NextStray]_vars

\* The event bridge with callbacks that may fail.
NextFail ==
  \/ \E kind \in {"sync", "async"}, fails \in BOOLEAN :
       RegisterAutocmd(kind, FALSE, fails)
  \/ \E h \in hooks : FireHook(h)
  \/ \E h \in Handles : ThenSettle(h)

SpecFail == Init /\ [][NextFail]_vars

\* The event bridge and the hooks it has left in the editor when the channel goes.
NextGone ==
  \/ \E kind \in {"sync", "async"} : RegisterAutocmd(kind, FALSE, FALSE)
  \/ \E h \in hooks : FireHook(h)
  \/ \E h \in Handles : ThenSettle(h)
  \/ Disconnect
  \/ \E h \in hooks : FireHookGone(h)

SpecGone == Init /\ [][NextGone]_vars

\* The session router under clients that initialize, poll and go away.
NextRouter ==
  \/ PostMcp(0, TRUE)
  \/ \E sid \in DOMAIN transports : PostMcp(sid, FALSE)
  \/ \E sid \in DOMAIN transports : GetMcp(sid)
  \/ \E t \in 1..MaxSessions : TransportClose(t)
  \/ \E t \in 1..MaxSessions : KeepAlive(t, "ok")
  \/ Broadcast

SpecRouter == Init /\ [][NextRouter]_vars

\* The HTTP endpoint under arbitrary requests: any session header, any body.
NextHttp ==
  \/ \E sid \in {0} \cup Uuids, isInit \in BOOLEAN : PostMcp(sid, isInit)
  \/ \E sid \in {0} \cup Uuids : GetMcp(sid)
  \/ \E t \in 1..MaxSessions : TransportClose(t)
  \/ \E t \in 1..MaxSessions : KeepAlive(t, "ok")

SpecHttp == Init /\ [][NextHttp]_vars

\* The router with initialize requests whose handling may fail.
NextInit ==
  \/ PostMcp(0, TRUE)
  \/ PostMcpInitFails
  \/ \E sid \in {0} \cup Uuids : GetMcp(sid)
  \/ \E t \in 1..MaxSessions : TransportClose(t)
  \/ \E t \in 1..MaxSessions : KeepAlive(t, "ok")
  \/ Broadcast

SpecInit == Init /\ [][NextInit]_vars

\* The router with GET requests whose handling other callbacks interleave with.
NextGet ==
  \/ PostMcp(0, TRUE)
  \/ \E sid \in {0} \cup Uuids : GetMcpAwait(sid)
  \/ \E t \in 1..MaxSessions : GetMcpResume(t)
  \/ \E t \in 1..MaxSessions : TransportClose(t)

SpecGet == Init /\ [][NextGet]_vars

\* The session router with keep-alive pings that may fail.
NextPing ==
  \/ PostMcp(0, TRUE)
  \/ \E sid \in DOMAIN transports : GetMcp(sid)
  \/ \E t \in 1..MaxSessions : TransportClose(t)
  \/ \E t \in 1..MaxSessions, outcome \in {"ok", "throws", "rejects"} :
       KeepAlive(t, outcome)

SpecPing == Init /\ [][NextPing]_vars

\* The open-file tracker under the buffer events of the editor.
NextTracker ==
  \/ \E k \in 0..MaxListed : Initialize(k)
  \/ \E event \in {"BufEnter", "BufWritePost", "BufDelete"}, path \in FileIds,
        exists \in BOOLEAN, listable \in BOOLEAN, isCurrent \in BOOLEAN :
       TrackerEvent(event, path, exists, listable, isCurrent)

SpecTracker == Init /\ [][NextTracker]_vars

\* The tracker with the runs of its callback overlapping.
NextAsync ==
  \/ \E k \in 0..MaxListed : Initialize(k)
  \/ \E event \in {"BufEnter", "BufWritePost", "BufDelete"}, path \in AsyncPaths :
       EventArrives(event, path)
  \/ \E h \in inflight, exists \in BOOLEAN : AccessDone(h, exists)
  \/ \E h \in inflight, listable \in BOOLEAN : FindBufferDone(h, listable)
  \/ \E h \in inflight, isCurrent \in BOOLEAN : ActiveDone(h, isCurrent)

SpecAsync == Init /\ [][NextAsync]_vars

\* The debounce of the tracker in time: updates of one file come in, and timeouts
\* run when they are due.
NextDebounce ==
  \/ Initialize(0)
  \/ \E event \in {"BufEnter", "BufDelete"} : TrackerEvent(event, 1, TRUE, TRUE, TRUE)
  \/ DebounceFire
  \/ Tick

SpecDebounce ==
  Init /\ [][NextDebounce]_vars /\ WF_vars(DebounceFire) /\ WF_vars(Tick)

\* The tools of the Claude server with a user who opens, edits, writes and wipes
\* files in the editor.
NextClaude ==
  \/ \E f \in ClaudeFiles : CheckDocumentDirty(f)
  \/ \E f \in ClaudeFiles, makeFrontmost \in BOOLEAN : OpenFileTool(f, makeFrontmost)
  \/ \E f \in ClaudeFiles : EditorOpen(f)
  \/ \E f \in ClaudeFiles : EditorModify(f)
  \/ EditorSave
  \/ \E f \in ClaudeFiles : EditorWipe(f)

SpecClaude == Init /\ [][NextClaude]_vars

\* The Claude server that answers the JSON-RPC requests of POST /claude itself.
NextRpc ==
  \/ \E method \in {"tools/list", "custom"}, does \in {"returns", "throws"} :
       RegisterRequestHandler(method, does)
  \/ \E method \in Methods \cup {"unknown"}, rpc \in BOOLEAN :
       PostClaudeRpc([rpc |-> rpc, method |-> method])
  \/ GetSse
  \/ \E t \in 1..MaxSessions : SseClose(t)

SpecRpc == Init /\ [][NextRpc]_vars

\* The Claude server that hands the messages of POST /claude to SSE transports.
NextSse ==
  \/ GetSse
  \/ \E t \in 1..MaxSessions : SseClose(t)
  \/ \E sid \in Uuids : PostClaude(sid)

SpecSse == Init /\ [][NextSse]_vars

----------------------------------------------------------------------------
\* Properties of the event bridge

\* C8: the callback of a handle that returns true at once is invoked at most once,
\* however often the event of its hook fires.
C8_TrueUnregisters ==
  \A h \in hooks :
    (h.cb.kind = "sync" /\ h.cb.ret) => invoked[h.id] <= 1

\* The event of such a handle has fired twice and the callback has run once.
C8_Witness ==
  \E h \in hooks :
    /\ h.cb.kind = "sync" /\ h.cb.ret
    /\ fired[h.id] >= 2
    /\ invoked[h.id] = 1

\* C9: the callback of a handle whose result is truthy, returned at once or as a
\* promise, is invoked by no notification after the first one.
C9_TruthyStopsDelivery ==
  \A h \in hooks :
    h.cb.ret => invoked[h.id] <= 1

\* C37: a notification that carries a handle which is not in the table, because
\* it was never registered or because it is unregistered while its hook still
\* fires, invokes no callback and leaves the table as it is; and a step that takes
\* a handle out of the table leaves every other registration as it is.
C37_UnknownHandleIgnored ==
  [][\A h \in Handles :
       /\ (fired'[h] # fired[h] /\ h \notin DOMAIN autocmdCallbacks) =>
            /\ invoked' = invoked
            /\ thens' = thens
            /\ autocmdCallbacks' = autocmdCallbacks
       /\ (h \in DOMAIN autocmdCallbacks /\ h \notin DOMAIN autocmdCallbacks') =>
            \A g \in (DOMAIN autocmdCallbacks) \ {h} :
              /\ g \in DOMAIN autocmdCallbacks'
              /\ autocmdCallbacks'[g] = autocmdCallbacks[g]]_vars

\* A notification came for a handle never given out, the hook of an unregistered
\* handle has fired again, and another handle is still registered.
C37_Witness ==
  /\ \E id \in Handles : id > callbackIdCounter /\ fired[id] > 0
  /\ \E g \in 1..callbackIdCounter :
       /\ g \notin DOMAIN autocmdCallbacks
       /\ fired[g] > invoked[g]
  /\ DOMAIN autocmdCallbacks # {}

\* C21: over any sequence of registerAutocmd and unregisterAutocmd calls the
\* bridge has one notification listener from the first registration on and never
\* a second one, and one notification invokes a registered callback at most once.
C21_OneSubscription ==
  /\ [](subscriptions = IF callbackIdCounter = 0 THEN 0 ELSE 1)
  /\ [][\A h \in Handles : invoked'[h] <= invoked[h] + 1]_vars

\* Two handles were registered, the first was unregistered, and a notification
\* for the second has invoked its callback.
C21_Witness ==
  /\ callbackIdCounter = 2
  /\ subscriptions = 1
  /\ 1 \notin DOMAIN autocmdCallbacks
  /\ 2 \in DOMAIN autocmdCallbacks
  /\ fired[2] = 1 /\ invoked[2] = 1

\* C27: a callback that fails during dispatch, by throwing or by a promise that is
\* rejected, has its failure kept inside the bridge's notification listener, and
\* its registration stays in the table.
C27_FailureContained ==
  /\ escaped = {}
  /\ \A h \in hooks : h.cb.fails => h.id \in DOMAIN autocmdCallbacks

\* C28: with the channel gone, a hook fires at most once, and a hook that has
\* fired then is no longer installed.
C28_HookSelfDestructs ==
  \A id \in Handles :
    /\ firedGone[id] <= 1
    /\ firedGone[id] = 1 => \A h \in hooks : h.id # id

\* After the disconnect the hook of handle 1, which had fired before, fired once
\* more and is gone; the hook of handle 2 has not fired and is still installed.
C28_Witness ==
  /\ ~connected
  /\ fired[1] >= 1 /\ firedGone[1] = 1
  /\ \A h \in hooks : h.id # 1
  /\ \E h \in hooks : h.id = 2 /\ firedGone[2] = 0

----------------------------------------------------------------------------
\* Properties of the diff review engine

\* The outcome a completion signal stands for.
OutcomeOf(sig) == IF sig = "reject" THEN "rejected" ELSE "accepted"

\* C1: a review that has returned was settled exactly once, its outcome is the
\* outcome of the first completion signal that reached the process for it, and
\* its scratch file was unlinked exactly once.
C1_FirstSignalWins ==
  \A p \in Paths :
    rev[p].pc = "done" =>
      /\ rev[p].ret.type = OutcomeOf(rev[p].first)
      /\ rev[p].nResolve = 1
      /\ rev[p].nUnlink = 1

\* C30: the key listener of a review that is open and not resolved is installed,
\* whatever keys were pressed in other reviews, and a review whose reject key press
\* reached the process before any other signal of it is resolved as rejected.
C30_KeysStayArmed ==
  \A p \in Paths :
    /\ (rev[p].pc = "open" /\ ~rev[p].resolved) => rev[p].acceptId \in keyListeners
    /\ rev[p].first = "reject" => (rev[p].resolved /\ rev[p].outcome = "rejected")

\* C31: the promise of a review is settled only after the cleanup of both panes is
\* over (the proposed buffer written to disk and deleted, the old buffer deleted),
\* and the scratch file is unlinked only after showDiff has read it.
C31_OutcomeAfterCleanup ==
  \A p \in Paths :
    /\ rev[p].pc = "settled" =>
         /\ bufs[NewFilePath(p)] = NoBuf
         /\ bufs[p] = NoBuf
         /\ rev[p].oldDelete # "sent"
    /\ rev[p].nUnlink > 0 => rev[p].ret.content # "none"


\* C2: a review whose window close reached the process while it was in flight,
\* with no reject key press before it, has the outcome accepted.
C2_ImplicitAccept ==
  \A p \in Paths :
    rev[p].atLeave = "noReject" =>
      /\ rev[p].resolved /\ rev[p].outcome = "accepted"
      /\ rev[p].pc = "done" => rev[p].ret.type = "accepted"

C2_Witness ==
  \E p \in Paths :
    /\ rev[p].pc = "done"
    /\ rev[p].first = "leave" /\ rev[p].atLeave = "noReject"
    /\ rev[p].ret.type = "accepted"

C4_CloseDiffAbsentIsNoop ==
  [][(last'.op = "closeDiff" /\ last'.path \notin DOMAIN activeDiffs) =>
       /\ last'.error = "none"
       /\ shown' = shown
       /\ bufs' = bufs
       /\ activeDiffs' = activeDiffs]_vars

\* closeDiff has just returned for a path that was reviewed and torn down and that
\* the user has in a window.
C4_Witness ==
  /\ last.op = "closeDiff" /\ last.error = "none"
  /\ last.path \notin DOMAIN activeDiffs
  /\ rev[last.path].pc = "done"
  /\ shown[last.path]

\* C11: a showDiff call whose scratch-file write failed has opened no pane, armed
\* no completion signal (no leave hook, no callback, no key listener, no keymap),
\* started no review and added no entry to activeDiffs.
C11_WriteFailureOpensNothing ==
  [][(last'.op = "showDiff" /\ last'.error = "write") =>
       /\ shown' = shown /\ bufs' = bufs
       /\ hooks' = hooks /\ autocmdCallbacks' = autocmdCallbacks
       /\ keyListeners' = keyListeners /\ keymaps' = keymaps
       /\ rev' = rev
       /\ activeDiffs' = activeDiffs]_vars

\* showDiff has just failed on the write for a path that has no review and no
\* entry, while the review of another path is open.
C11_Witness ==
  /\ last.op = "showDiff" /\ last.error = "write"
  /\ rev[last.path].pc = "idle"
  /\ last.path \notin DOMAIN activeDiffs
  /\ ~shown[NewFilePath(last.path)]
  /\ \E q \in Paths : rev[q].pc = "open"

\* C10: a showDiff call that failed because the editor was unreachable has left no
\* scratch file and no entry in activeDiffs.
C10_FailFastNoSideEffects ==
  (last.op = "showDiff" /\ last.error = "connectivity") =>
    /\ disk[NewFilePath(last.path)] = NoFile
    /\ last.path \notin DOMAIN activeDiffs

\* The connection a tool call of session sid came through.
Issuer(sid) ==
  IF \E i \in DOMAIN conns : conns[i].sessionId = sid
    THEN CHOOSE i \in DOMAIN conns : conns[i].sessionId = sid
    ELSE 0

\* The step is the one in which the openDiff call on p returns its outcome.
Resolves(p) == rev[p].pc = "settled" /\ rev'[p].pc = "done"

\* C15 as stated: every openDiff call that resolves pushes one outcome
\* notification, on the connection that issued it and on no other.
C15_OneNotificationToIssuer ==
  [][\A p \in Paths :
       (Resolves(p) /\ rev[p].sid # 0) =>
         /\ last'.op = "notify"
         /\ last'.to = {Issuer(rev[p].sid)}]_vars

\* C15, amended: an openDiff call that resolves while its session is still
\* registered pushes exactly one outcome notification, on the transport of that
\* session only: ide/diffAccepted with the file's content when it was accepted,
\* ide/diffClosed with no content when it was rejected.  A call whose session has
\* closed by then pushes none, and no other step pushes an outcome notification.
C15_OneNotificationToLiveIssuer ==
  [][/\ \A p \in Paths :
          Resolves(p) =>
            IF rev[p].sid # 0 /\ ~conns[Issuer(rev[p].sid)].closed
              THEN /\ last'.op = "notify" /\ last'.path = p
                   /\ last'.to = {Issuer(rev[p].sid)}
                   /\ rev'[p].ret.type \in {"accepted", "rejected"}
                   /\ rev'[p].ret.type = "accepted" =>
                        /\ last'.method = "ide/diffAccepted"
                        /\ last'.content = rev'[p].ret.content
                   /\ rev'[p].ret.type = "rejected" =>
                        /\ last'.method = "ide/diffClosed"
                        /\ last'.content = "undefined"
              ELSE last'.op # "notify"
     /\ last'.op = "notify" => \E p \in Paths : Resolves(p)]_vars

\* A rejected review was reported on the connection of its call while another
\* connection was open.
C15_Witness ==
  /\ last.op = "notify" /\ last.method = "ide/diffClosed"
  /\ Len(conns) = 2 /\ ~conns[1].closed /\ ~conns[2].closed
  /\ last.to = {2}
  /\ rev[last.path].pc = "done" /\ rev[last.path].sid = conns[2].sessionId

\* C33: once a completion signal of a review in flight has reached the process,
\* the promise of its diff() is eventually settled (or the process has exited),
\* also when the cleanup finds or deletes no buffer.
C33_SignalLeadsToOutcome ==
  \A p \in Paths :
    (InFlight(rev[p]) /\ rev[p].first # "none") ~> (rev[p].nResolve > 0 \/ ~alive)

\* The step takes the review of p a stage further: it resolves it, cleans it up,
\* settles its promise or tears it down.
Advances(p) ==
  /\ rev[p].pc \in {"open", "cleanup", "cleaned", "settled"}
  /\ rev'[p].pc # rev[p].pc

\* Two distinct target paths never have the same scratch path.
ScratchPathsDistinct ==
  \A p, q \in TargetPaths : p # q => NewFilePath(p) # NewFilePath(q)

\* C34: a step that resolves or tears down one review leaves the activeDiffs entry,
\* the scratch file and the pending outcome of a review in flight on another
\* target as they are; and two distinct target paths never have the same scratch
\* path.
C34_ReviewsApart ==
  /\ [][\A p, q \in Paths :
          (p # q /\ Advances(p) /\ InFlight(rev[q]) /\ ~Advances(q)) =>
            /\ q \in DOMAIN activeDiffs' /\ activeDiffs'[q] = activeDiffs[q]
            /\ disk'[NewFilePath(q)] = disk[NewFilePath(q)]
            /\ rev'[q].outcome = rev[q].outcome
            /\ rev'[q].nResolve = rev[q].nResolve]_vars
  /\ []ScratchPathsDistinct

\* The scratch path of a target path is neither that path nor the file it names.
ScratchIsNotTarget ==
  \A p \in TargetPaths : NewFilePath(p) # p /\ NewFilePath(p) # normalize(p)

C18_WriteAccepts ==
  [][\A p \in Paths :
       (/\ last'.op = "write" /\ last'.path = NewFilePath(p)
        /\ rev[p].pc = "open") =>
         rev'[p].resolved /\ rev'[p].outcome = "accepted"]_vars

----------------------------------------------------------------------------
\* Properties of the session router

\* C5: the transports created by initializations have pairwise distinct session
\* ids, each open one is registered under its own id, and a broadcast pushes on
\* every registered open transport and on no closed one.
C5_BroadcastSkipsClosed ==
  [][/\ \A i, j \in DOMAIN conns' :
          i # j => conns'[i].sessionId # conns'[j].sessionId
     /\ \A i \in DOMAIN conns' :
          ~conns'[i].closed =>
            /\ conns'[i].sessionId \in DOMAIN transports'
            /\ transports'[conns'[i].sessionId] = i
     /\ broadcasts' = broadcasts + 1 =>
          \A i \in DOMAIN conns :
            /\ conns'[i].got = conns[i].got + (IF conns[i].closed THEN 0 ELSE 1)
            /\ conns'[i].gotClosed = 0]_vars

\* Two sessions were initialized, the first one closed, and the broadcast that
\* followed was pushed on the second one only.
C5_Witness ==
  /\ Len(conns) = 2
  /\ conns[1].sessionId # conns[2].sessionId
  /\ conns[1].closed /\ ~conns[2].closed
  /\ broadcasts = 1
  /\ conns[1].got = 0 /\ conns[2].got = 1

C13_ClosedIsQuiet ==
  [][\A i \in DOMAIN conns' :
       conns'[i].closed =>
         /\ ~conns'[i].keepAlive
         /\ conns'[i].sessionId \notin DOMAIN transports'
         /\ \A sid \in DOMAIN transports' : transports'[sid] # i
         /\ ~conns'[i].pingedClosed
         /\ conns'[i].gotClosed = 0
         /\ (i \in DOMAIN conns /\ conns[i].closed) => conns'[i].got = conns[i].got
         /\ (i \in DOMAIN conns /\ ~conns[i].closed) =>
              conns'[i].sessionId \notin sessionsWithInitialNotification']_vars

\* A session that had its initial notification and one broadcast closed; the next
\* broadcast went to the other session only.
C13_Witness ==
  /\ Len(conns) = 2
  /\ conns[1].closed /\ ~conns[2].closed
  /\ conns[1].initial = 1 /\ conns[1].got = 1
  /\ broadcasts = 2 /\ conns[2].got = 2
  /\ conns[2].keepAlive

\* C14: in a broadcast in which the send on one transport fails, the send is still
\* made on every other registered transport.
C14_FailureDoesNotStopBroadcast ==
  [][(broadcasts' = broadcasts + 1 /\ pushFailed' # 0) =>
       \A t \in Registered(transports) \ {pushFailed'} :
         conns'[t].got = conns[t].got + 1]_vars

\* The send on the first of two registered transports failed and the second one
\* had the update.
C14_Witness ==
  /\ pushFailed = 1
  /\ Registered(transports) = {1, 2}
  /\ broadcasts = 1
  /\ conns[2].got = 1

----------------------------------------------------------------------------
\* Properties of the open-file tracker

\* C6: when MAX_FILES + 1 new files have entered the list one after the other, the
\* list has MAX_FILES entries: all of these files but the first.
C6_EvictsOldest ==
  (inOrder /\ nSeen = MAX_FILES + 1) =>
    /\ Len(files) = MAX_FILES
    /\ {files[i].path : i \in DOMAIN files} = 2..(MAX_FILES + 1)

\* C7: at most one entry of the list is flagged active.
C7_OneActive ==
  Cardinality({i \in DOMAIN files : files[i].isActive}) <= 1

\* A file was flagged while another file was flagged, and one flag is left.
C7_Witness ==
  /\ reflagged
  /\ Cardinality({i \in DOMAIN files : files[i].isActive}) = 1

\* The paths of the entries of fs other than path, in the order of fs
RECURSIVE OtherPaths(_, _)
OtherPaths(fs, path) ==
  IF fs = <<>> THEN <<>>
  ELSE (IF Head(fs).path = path THEN <<>> ELSE <<Head(fs).path>>)
       \o OtherPaths(Tail(fs), path)

\* s is t with some elements left out
RECURSIVE IsSubSeq(_, _)
IsSubSeq(s, t) ==
  IF s = <<>> THEN TRUE
  ELSE IF t = <<>> THEN FALSE
  ELSE IF Head(s) = Head(t) THEN IsSubSeq(Tail(s), Tail(t))
  ELSE IsSubSeq(s, Tail(t))

\* The entries of fs2 other than path are entries of fs1, in the order of fs1.
OthersInOrder(fs1, fs2, path) ==
  IsSubSeq(OtherPaths(fs2, path), OtherPaths(fs1, path))

\* The files an event can be on: the next new file or one of the first MaxOld.
EventPaths == (1..MaxOld) \cup {nSeen + 1}

C25_DeletedStaysOut ==
  \A path \in AsyncPaths :
    (lastEvent[path] = "BufDelete" /\ inflight = {}) => IndexOf(files, path) = 0

\* C36: no path is in two entries of the list, whatever the order in which the
\* runs of the callback take their steps.
C36_NoPathTwice ==
  \A i, j \in 1..Len(files) : files[i].path = files[j].path => i = j

\* C17: in a burst of updates, each of which reaches fireWithDebounce less than
\* DEBOUNCE_MS after the one before, at most one timeout is set; onDidChange is
\* emitted at most once per burst, DEBOUNCE_MS or more after the last update of the
\* burst and not before; and once a timeout is set, an emission follows.
C17_OneEmitPerBurst ==
  /\ [](Cardinality(timers) <= 1 /\ callEmits <= 1)
  /\ [][callEmits' = callEmits + 1 =>
          /\ now >= lastCall + DEBOUNCE_MS
          /\ callEmits = 0]_vars
  /\ ((debounceTimer = "armed") ~> (debounceTimer = "fired"))

\* A burst of MaxBurst updates or more was followed by one emission, DEBOUNCE_MS after the
\* third.
C17_Witness ==
  /\ debounceTimer = "fired"
  /\ burstCalls = MaxBurst
  /\ callEmits = 1
  /\ now = lastCall + DEBOUNCE_MS


----------------------------------------------------------------------------
\* Properties of the tools of the Claude server

\* C19: the answer of checkDocumentDirty(f) is success=false with the message
\* 'Document not open' when no buffer holds f; otherwise it is success=true for f
\* with isDirty equal to the modified flag of the buffer of f: false when the
\* buffer is as it was loaded or has been written, true when it has an edit that
\* was not written.
C19_DirtyFollowsBuffer ==
  [][answer'.tool = "checkDocumentDirty" =>
       LET f == answer'.filePath
       IN  /\ nbufs' = nbufs
           /\ nbufs[f] = "none" =>
                ~answer'.success /\ answer'.message = "Document not open"
           /\ nbufs[f] # "none" =>
                /\ answer'.success
                /\ answer'.isDirty = (nbufs[f] = "dirty")
           /\ nbufs[f] \in {"clean", "saved"} => ~answer'.isDirty]_vars

\* The file was edited and written, and the answer is: open and not dirty; the
\* other file has no buffer.
C19_Witness ==
  /\ answer.tool = "checkDocumentDirty"
  /\ answer.success /\ ~answer.isDirty
  /\ nbufs[answer.filePath] = "saved"
  /\ \E g \in ClaudeFiles : nbufs[g] = "none"

C23_OneTransportPerSession ==
  /\ [](/\ \A sid \in DOMAIN transports :
            /\ transports[sid] \in DOMAIN conns
            /\ conns[transports[sid]].sessionId = sid
         /\ \A i, j \in DOMAIN conns :
              conns[i].sessionId = conns[j].sessionId => i = j)
  /\ [][(reply'.op = "POST" /\ reply'.sid \in DOMAIN transports)
         => /\ reply'.status = 200
            /\ transports' = transports
            /\ conns' = conns]_vars

\* An initialize request that carried the id of the one session there is was
\* handled, and there is still one transport.
C23_Witness ==
  /\ reply.op = "POST" /\ reply.isInit /\ reply.status = 200
  /\ reply.sid \in DOMAIN transports
  /\ Len(conns) = 1

\* C38: the initial context update is sent at most once on the transport of a
\* session; and a session whose transport has closed has no entry in
\* sessionsWithInitialNotification and was sent no initial context update after
\* the close.
C38_InitialOnceAndCleared ==
  \A t \in DOMAIN conns :
    /\ conns[t].initial <= 1
    /\ conns[t].closed =>
         /\ conns[t].sessionId \notin sessionsWithInitialNotification
         /\ conns[t].initialClosed = 0

\* C39: every keep-alive timer that is armed is the timer of a transport that is
\* registered in this.transports under its session id; no timer is armed for a
\* transport whose initialization failed.
C39_TimerHasSession ==
  \A t \in DOMAIN conns :
    conns[t].keepAlive =>
      /\ conns[t].sessionId \in DOMAIN transports
      /\ transports[conns[t].sessionId] = t

\* C26: a transport on which a keep-alive ping has failed has its keep-alive
\* timer cancelled, and no keep-alive ping is attempted on it afterwards.
C26_FailedPingStopsTimer ==
  \A i \in DOMAIN conns :
    conns[i].pingFailed => (~conns[i].keepAlive /\ ~conns[i].pingedFailed)

----------------------------------------------------------------------------
\* Properties of the endpoints of the Claude server

\* C22: every POST /claude gets one answer: 400 for a body that is no JSON-RPC
\* request, the MethodNotFound error for a request whose method has no registered
\* handler, and the InternalError error when the handler throws.
C22_PostAnswers ==
  [][response'.op = "POST /claude" =>
       /\ ~response'.rpc => response'.status = 400
       /\ (response'.rpc /\ ~response'.registered) => response'.code = MethodNotFound
       /\ (response'.rpc /\ response'.registered /\ response'.does = "throws")
            => response'.code = InternalError]_vars

\* C29: once the transport of a session of GET /sse has closed, the session is
\* not in the transports map, no message of a POST /claude is handed to the
\* transport, and a POST /claude with its session id is answered
\* 'Invalid session ID'.
C29_ClosedSessionRemoved ==
  /\ \A t \in DOMAIN sseConns :
       sseConns[t].closed =>
         /\ sseConns[t].sessionId \notin DOMAIN sseTransports
         /\ sseConns[t].handedClosed = 0
  /\ (/\ response.op = "POST /claude"
      /\ \E t \in DOMAIN sseConns :
           sseConns[t].closed /\ sseConns[t].sessionId = response.sid)
       => response.text = "Invalid session ID"

====
